---------------------------- MODULE Spec2Model ----------------------------
(***************************************************************************)
(* Verification model of the retrieval pipeline of                         *)
(* anabbre/asistente-turistico-cordoba.                                    *)
(*                                                                         *)
(*   SpecPack   : the sentence packer _pack_sentences (chunking.py)        *)
(*   SpecAsk    : ask() of rag_service.py (over-sampling, local re-rank)   *)
(*   SpecAskK   : ask() over the whole range of top_k, up to the query     *)
(*   SpecIngest : the deterministic-id bulk upsert scripts/upsert_chunks.py *)
(*   SpecIndex  : delete_by_source of rag_service.py, with a bulk upsert   *)
(*                running beside it                                        *)
(*                                                                         *)
(* A text is a sequence of cells.  A cell <<i, j, c>> is the j-th          *)
(* character of the i-th input sentence and c is "x" (a non-blank          *)
(* character) or " " (a blank); <<0, 0, " ">> is a blank injected by       *)
(* " ".join.  Every non-blank cell stands for a distinct character, so     *)
(* equality of cells is equality of text without accidental repetitions.   *)
(***************************************************************************)
EXTENDS Integers, Sequences, FiniteSets, Bags, TLC

VARIABLES
    \* ---- _pack_sentences ----
    sents,        \* parameter sents
    chunk_size,   \* parameter chunk_size
    overlap,      \* parameter overlap
    chunks,       \* local chunks: sequence of [id, text]
    buf,          \* local buf: sequence of texts
    buf_len,      \* local buf_len
    cid,          \* local cid
    si,           \* position of the for loop in sents (next sentence to read)
    pst,          \* "loop" | "done" | "error" (ValueError raised)
    flushed,      \* history: positions in chunks appended by flush(add_overlap=True)
    \* ---- ask ----
    collection,   \* the points of the collection, in the index's own relevance order
    req,          \* the AskRequest
    apc,          \* position of ask: "embed" | "query" | "fetched" | "generate" | "done"
    qvec,         \* local qvec
    qfilter,      \* local qfilter (NoFilter for None)
    initial_k,    \* local initial_k
    pts,          \* local pts
    top,          \* local top
    resp,         \* what ask returned or raised
    genCalls,     \* history: calls of model.generate_content in this request
    prev,         \* history: what the previous run of the same request produced
    askRun,       \* number of earlier runs of the same request
    \* ---- index maintenance ----
    index,        \* the collection as a store: point id -> [vector, payload]
    runs,         \* runs of scripts/upsert_chunks.py so far
    lastDocs,     \* history: the docs of the last run that wrote (<<>> before it)
    beforeRun,    \* history: the index before the last run that wrote
    dreq,         \* the DeleteBySourceRequest
    dpc,          \* position of delete_by_source: "scroll" | "delete" | "done"
    deleted_estimate, \* local deleted_estimate
    dresp,        \* what delete_by_source returned or raised
    atScroll,     \* history: the index when the scroll was answered
    interfered,   \* history: the index was written by another process since the scroll
    \* ---- stats ----
    spc,          \* position of stats: "count" | "scroll" | "done"
    total,        \* local total
    by_source,    \* local by_source: source label -> count
    next_page,    \* local next_page (NoToken for None)
    sresp,        \* what stats returned or raised
    pages,        \* history: <<number of points, continuation token given>> per scroll
    \* ---- upsert ----
    ureq,         \* the UpsertRequest
    upc,          \* position of upsert: "start" | "loop" | "chunked" | "write" | "done"
    uchunks,      \* local chunks (inside chunk_text: its local chunks)
    ck_text,      \* chunk_text: local text (trimmed)
    ck_start,     \* chunk_text: local start
    uvectors,     \* local vectors
    uresp,        \* what upsert returned or raised
    drawn,        \* number of uuid4 ids drawn so far
    written,      \* history: the batches of points this request sent to client.upsert
    atUStart,     \* history: the index when the request started
    \* ---- health ----
    deps,         \* the dependencies: [qdrant, key_valid, model_ok]
    hsite,        \* the handler: "rag_service" (health) | "api" (api.py health)
    hpc,          \* position of health: "env" | "probe" | "done"
    ok_env,       \* local ok_env
    ok_qdrant,    \* local ok_qdrant
    hresp,        \* what health returned or raised
    atProbe,      \* history: the dependencies when the index was probed
    \* ---- api.py query ----
    qreq,         \* the parameters q and top_k
    qpc,          \* position of query: "embed" | "search" | "done"
    vec,          \* local vec
    qout,         \* what query returned or raised
    \* ---- metadata_enricher ----
    chunk_text_in, \* parameter chunk_text of _guess_page
    gpages,       \* parameter pages: sequence of [num, norm]
    gpc,          \* position of _guess_page: "call" | "done"
    gres,         \* what _guess_page returned: [found, num] (found = FALSE for None)
    \* ---- embeddings.get_model on the host's worker threads ----
    _model,       \* the module global _model: 0 for None, else the instance it refers to
    tpc,          \* thread -> position in get_model: "check" | "load" | "assign" |
                  \* "return" | "done" | "raised"
    built,        \* thread -> the instance its SentenceTransformer(...) call made (0: none)
    got,          \* thread -> the instance get_model returned to it (0: not yet)
    created,      \* history: instances of SentenceTransformer created in this process
    replaced,     \* history: _model was assigned while it already referred to an instance
    \* ---- chunking.main: paragraphs and sentences ----
    full_text,    \* local full_text of main
    paragraphs,   \* local paragraphs
    para_i,       \* number of paragraphs the for loop has taken
    seg_sents,    \* local sents of main, as it grows
    segpc,        \* position of main: "split" | "sentences" | "done"
    \* ---- rag_service.cos_sim ----
    cos_a,        \* parameter a
    cos_b,        \* parameter b
    cos_out,      \* [zero, value]: zero = the early return was taken; value = the float
    cospc,        \* position of cos_sim: "call" | "done"
    \* ---- external collaborators ----
    calls         \* history: operation -> the collaborator calls of its (last) run, in
                  \* order, each [call, ok, mode] (mode: the prefix an encoder call used)

packVars == <<sents, chunk_size, overlap, chunks, buf, buf_len, cid, si, pst, flushed>>

askVars == <<collection, req, apc, qvec, qfilter, initial_k, pts, top, resp, genCalls, prev,
             askRun>>

indexVars == <<index, runs, lastDocs, beforeRun, dreq, dpc, deleted_estimate, dresp, atScroll,
               interfered>>

statsVars == <<spc, total, by_source, next_page, sresp, pages>>

upsertVars == <<ureq, upc, uchunks, ck_text, ck_start, uvectors, uresp, drawn, written,
                atUStart>>

\* the variables of the other operations
healthVars == <<deps, hsite, hpc, ok_env, ok_qdrant, hresp, atProbe>>

queryVars == <<qreq, qpc, vec, qout>>

guessVars == <<chunk_text_in, gpages, gpc, gres>>

modelVars == <<_model, tpc, built, got, created, replaced>>

segVars == <<full_text, paragraphs, para_i, seg_sents, segpc>>

cosVars == <<cos_a, cos_b, cos_out, cospc>>

auxVars == <<segVars, cosVars>>

extVars == <<statsVars, upsertVars, healthVars, queryVars, guessVars, modelVars, auxVars>>

vars == <<packVars, askVars, indexVars, extVars, calls>>

(***************************************************************************)
(* Bounds of the model                                                     *)
(***************************************************************************)
MaxSentLen == 4
MaxSents   == 3
MaxChunk   == 4
MaxOverlap == 3
MaxPoints  == 3      \* points in the collection (SpecAsk)
MaxTopK    == 3      \* top_k of a request (SpecAsk)
MaxReqTopK == 60     \* |top_k| of a request (SpecAskK)
MaxPerSource == 3    \* records of one source label in a small initial index
MaxDocs    == 2      \* lines of chunks.jsonl
MaxRuns    == 2      \* runs of upsert_chunks.py
MaxWindow  == 3      \* largest max_chars and overlap of an UpsertRequest
MaxTurns   == 4      \* turns of chunk_text's loop that are followed
MaxPages   == 2      \* pages of the interim document
MaxAskRuns == 2      \* runs of the same ask request
MaxThreads == 3      \* worker threads of the host
MaxLines   == 2      \* lines of the interim text
MaxComp    == 3      \* largest component of a vector given to cos_sim
MantissaBits == 6    \* bits of the mantissa of the modelled floats

(***************************************************************************)
(* Python helpers                                                          *)
(***************************************************************************)
Min(a, b) == IF a < b THEN a ELSE b
Max(a, b) == IF a > b THEN a ELSE b

\* s[a:b] for 0 <= a, 0 <= b
PySlice(s, a, b) == SubSeq(s, a + 1, Min(b, Len(s)))

\* s[-n:] for n >= 0; note that s[-0:] is s[0:], the whole of s
PySuffix(s, n) ==
    IF n = 0 \/ n >= Len(s) THEN s ELSE SubSeq(s, Len(s) - n + 1, Len(s))

IsBlank(c) == c[3] = " "

\* str.strip()
RECURSIVE LStrip(_)
LStrip(t) == IF t # <<>> /\ IsBlank(t[1]) THEN LStrip(Tail(t)) ELSE t

RECURSIVE RStrip(_)
RStrip(t) ==
    IF t # <<>> /\ IsBlank(t[Len(t)]) THEN RStrip(SubSeq(t, 1, Len(t) - 1)) ELSE t

Strip(t) == RStrip(LStrip(t))

JoinCell == <<0, 0, " ">>

\* " ".join(b)
RECURSIVE Join(_)
Join(b) ==
    IF b = <<>> THEN <<>>
    ELSE IF Len(b) = 1 THEN b[1]
    ELSE b[1] \o <<JoinCell>> \o Join(Tail(b))

\* the i-th sentence as a text
Cells(i, s) == [j \in 1..Len(s) |-> <<i, j, s[j]>>]

(***************************************************************************)
(* Inputs of the packer: what _sentences hands over (trimmed units with    *)
(* single inner blanks), and the empty string the loop skips.              *)
(***************************************************************************)
Chars == {"x", " "}

WellFormed(s) ==
    /\ s # <<>> => (s[1] # " " /\ s[Len(s)] # " ")
    /\ \A j \in 1..(Len(s) - 1) : ~(s[j] = " " /\ s[j + 1] = " ")

SentenceSet ==
    {s \in UNION {[1..n -> Chars] : n \in 0..MaxSentLen} : WellFormed(s)}

SentLists == UNION {[1..n -> SentenceSet] : n \in 0..MaxSents}

(***************************************************************************)
(* _pack_sentences                                                         *)
(***************************************************************************)
PackState == [chunks |-> chunks, buf |-> buf, buf_len |-> buf_len, cid |-> cid,
              flushed |-> flushed]

\* the closure flush(add_overlap) applied to the locals st
flush(st, add_overlap) ==
    IF st.buf = <<>> THEN st
    ELSE
      LET text == Strip(Join(st.buf))
          ch1  == IF text # <<>>
                  THEN Append(st.chunks, [id |-> st.cid, text |-> text])
                  ELSE st.chunks
          cid1 == IF text # <<>> THEN st.cid + 1 ELSE st.cid
          fl1  == IF text # <<>> /\ add_overlap
                  THEN st.flushed \cup {Len(ch1)} ELSE st.flushed
      IN IF add_overlap /\ overlap > 0 /\ ch1 # <<>>
         THEN LET tail == PySuffix(ch1[Len(ch1)].text, overlap)
              IN [chunks |-> ch1, cid |-> cid1, flushed |-> fl1,
                  buf |-> IF tail # <<>> THEN <<tail>> ELSE <<>>,
                  buf_len |-> Len(tail)]
         ELSE [chunks |-> ch1, cid |-> cid1, flushed |-> fl1,
               buf |-> <<>>, buf_len |-> 0]

\* the pieces of the hard split of s, in order, with ids from c0 on
RECURSIVE HardPieces(_, _, _, _)
HardPieces(s, i, step, c0) ==
    IF i >= Len(s) THEN <<>>
    ELSE <<[id |-> c0, text |-> PySlice(s, i, i + chunk_size)]>>
         \o HardPieces(s, i + step, step, c0 + 1)

SetLocals(st) ==
    /\ chunks' = st.chunks
    /\ buf' = st.buf
    /\ buf_len' = st.buf_len
    /\ cid' = st.cid
    /\ flushed' = st.flushed

CurSent == Cells(si, sents[si])

InLoop == pst = "loop" /\ si <= Len(sents)

\* if not s: continue
PackSkip ==
    /\ InLoop
    /\ sents[si] = <<>>
    /\ si' = si + 1
    /\ UNCHANGED <<sents, chunk_size, overlap, chunks, buf, buf_len, cid, pst, flushed>>
    /\ UNCHANGED <<askVars, indexVars, extVars, calls>>

\* the sentence fits: buf.append(s)
PackAppend ==
    /\ InLoop
    /\ sents[si] # <<>>
    /\ buf_len + Len(sents[si]) + 1 <= chunk_size
    /\ buf' = Append(buf, CurSent)
    /\ buf_len' = buf_len + Len(sents[si]) + 1
    /\ si' = si + 1
    /\ UNCHANGED <<sents, chunk_size, overlap, chunks, cid, pst, flushed>>
    /\ UNCHANGED <<askVars, indexVars, extVars, calls>>

Overflow ==
    /\ InLoop
    /\ sents[si] # <<>>
    /\ ~(buf_len + Len(sents[si]) + 1 <= chunk_size)

\* overflow, the sentence is not larger than a chunk: flush, buf = [s]
PackOverflowNew ==
    /\ Overflow
    /\ ~(Len(sents[si]) > chunk_size)
    /\ LET st == flush(PackState, TRUE)
       IN SetLocals([st EXCEPT !.buf = <<CurSent>>, !.buf_len = Len(CurSent)])
    /\ si' = si + 1
    /\ UNCHANGED <<sents, chunk_size, overlap, pst>>
    /\ UNCHANGED <<askVars, indexVars, extVars, calls>>

\* overflow, one huge sentence: flush, hard split, buf = [tail]
PackOverflowSplit ==
    /\ Overflow
    /\ Len(sents[si]) > chunk_size
    /\ chunk_size - overlap # 0
    /\ LET st     == flush(PackState, TRUE)
           step   == chunk_size - overlap
           pieces == IF step > 0 THEN HardPieces(CurSent, 0, step, st.cid) ELSE <<>>
           tail   == PySuffix(CurSent, overlap)
       IN SetLocals([st EXCEPT !.chunks = st.chunks \o pieces,
                               !.cid = st.cid + Len(pieces),
                               !.buf = IF tail # <<>> THEN <<tail>> ELSE <<>>,
                               !.buf_len = Len(tail)])
    /\ si' = si + 1
    /\ UNCHANGED <<sents, chunk_size, overlap, pst>>
    /\ UNCHANGED <<askVars, indexVars, extVars, calls>>

\* overflow, one huge sentence, step = 0: range() raises ValueError after the flush
PackOverflowRaise ==
    /\ Overflow
    /\ Len(sents[si]) > chunk_size
    /\ chunk_size - overlap = 0
    /\ SetLocals(flush(PackState, TRUE))
    /\ pst' = "error"
    /\ UNCHANGED <<sents, chunk_size, overlap, si>>
    /\ UNCHANGED <<askVars, indexVars, extVars, calls>>

\* end of the loop: flush(add_overlap=False); return chunks
PackReturn ==
    /\ pst = "loop"
    /\ si > Len(sents)
    /\ SetLocals(flush(PackState, FALSE))
    /\ pst' = "done"
    /\ UNCHANGED <<sents, chunk_size, overlap, si>>
    /\ UNCHANGED <<askVars, indexVars, extVars, calls>>

Unset == <<"<unset>">>

\* the worker threads that serve the synchronous endpoints
Threads == 1..MaxThreads

Operations ==
    {"ask", "upsert", "delete_by_source", "stats", "health", "query", "upsert_chunks"}

NoCalls == [op \in Operations |-> <<>>]

\* the operation op makes the collaborator call `name`, which returns (ok) or raises
Called(op, name, ok, mode) ==
    calls' = [calls EXCEPT ![op] = Append(@, [call |-> name, ok |-> ok, mode |-> mode])]

IndexIdle ==
    /\ index = <<>>
    /\ runs = 0
    /\ lastDocs = <<>>
    /\ beforeRun = <<>>
    /\ dreq = Unset
    /\ dpc = "done"
    /\ deleted_estimate = 0
    /\ dresp = Unset
    /\ atScroll = <<>>
    /\ interfered = FALSE

NoToken == <<"<None>">>

StatsIdle ==
    /\ spc = "done"
    /\ total = 0
    /\ by_source = <<>>
    /\ next_page = NoToken
    /\ sresp = Unset
    /\ pages = <<>>

UpsertIdle ==
    /\ ureq = Unset
    /\ upc = "done"
    /\ uchunks = <<>>
    /\ ck_text = <<>>
    /\ ck_start = 0
    /\ uvectors = <<>>
    /\ uresp = Unset
    /\ drawn = 0
    /\ written = <<>>
    /\ atUStart = <<>>

AllUp == [qdrant |-> "up", key_valid |-> TRUE, model_ok |-> TRUE]

HealthIdle ==
    /\ deps = AllUp
    /\ hsite = "rag_service"
    /\ hpc = "done"
    /\ ok_env = TRUE
    /\ ok_qdrant = TRUE
    /\ hresp = Unset
    /\ atProbe = AllUp

QueryIdle ==
    /\ qreq = Unset
    /\ qpc = "done"
    /\ vec = <<>>
    /\ qout = Unset

NoPage == [found |-> FALSE, num |-> 0]

GuessIdle ==
    /\ chunk_text_in = <<>>
    /\ gpages = <<>>
    /\ gpc = "done"
    /\ gres = NoPage

SegIdle ==
    /\ full_text = <<>>
    /\ paragraphs = <<>>
    /\ para_i = 0
    /\ seg_sents = <<>>
    /\ segpc = "done"

NoSim == [zero |-> TRUE, value |-> [m |-> 0, e |-> 0]]

CosIdle ==
    /\ cos_a = <<>>
    /\ cos_b = <<>>
    /\ cos_out = NoSim
    /\ cospc = "done"

AuxIdle == SegIdle /\ CosIdle

\* no request is in get_model and the model is not loaded
ModelIdle ==
    /\ _model = 0
    /\ tpc = [t \in Threads |-> "done"]
    /\ built = [t \in Threads |-> 0]
    /\ got = [t \in Threads |-> 0]
    /\ created = 0
    /\ replaced = FALSE

ExtIdle ==
    /\ GuessIdle
    /\ ModelIdle
    /\ AuxIdle
    /\ StatsIdle
    /\ UpsertIdle
    /\ HealthIdle
    /\ QueryIdle
    /\ calls = NoCalls

NoPrev ==
    [done |-> FALSE, fetched |-> FALSE, ranked |-> FALSE, ok |-> FALSE, qvec |-> <<0, 0>>,
     top |-> <<>>, sources |-> <<>>]

AskIdle_Locals ==
    /\ prev = NoPrev
    /\ askRun = 0
    /\ collection = <<>>
    /\ req = [top_k |-> 0]
    /\ apc = "done"
    /\ qvec = <<0, 0>>
    /\ qfilter = <<>>
    /\ initial_k = 0
    /\ pts = <<>>
    /\ top = <<>>
    /\ resp = <<>>
    /\ genCalls = 0

PackInit ==
    /\ AskIdle_Locals
    /\ IndexIdle
    /\ ExtIdle
    /\ sents \in SentLists
    /\ chunk_size \in 1..MaxChunk
    /\ overlap \in 0..MaxOverlap
    /\ chunks = <<>>
    /\ buf = <<>>
    /\ buf_len = 0
    /\ cid = 0
    /\ si = 1
    /\ pst = "loop"
    /\ flushed = {}

PackNext ==
    \/ PackSkip
    \/ PackAppend
    \/ PackOverflowNew
    \/ PackOverflowSplit
    \/ PackOverflowRaise
    \/ PackReturn

SpecPack == PackInit /\ [][PackNext]_vars

(***************************************************************************)
(* Properties of the packer                                                *)
(***************************************************************************)
\* the characters of a text: blanks are equal, non-blank characters distinct
TextOf(t) == [p \in 1..Len(t) |-> IF IsBlank(t[p]) THEN <<" ">> ELSE <<t[p][1], t[p][2]>>]

ValidConfig == chunk_size > overlap /\ overlap >= 0

\* the input characters that chunks 1..k-1 hold
Seen(k) == {chunks[m].text[p] : <<m, p>> \in
              {mp \in (1..(k - 1)) \X (1..(MaxSentLen + MaxChunk + MaxOverlap + 2)) :
                  /\ mp[2] <= Len(chunks[mp[1]].text)
                  /\ chunks[mp[1]].text[mp[2]][1] # 0}}

\* the positions of chunk k whose input character an earlier chunk holds already
DupPositions(k) ==
    {p \in 1..Len(chunks[k].text) :
        chunks[k].text[p][1] # 0 /\ chunks[k].text[p] \in Seen(k)}

IsNew(k, c) == c[1] # 0 /\ c \notin Seen(k)

RECURSIVE SelectNew(_, _)
SelectNew(k, t) ==
    IF t = <<>> THEN <<>>
    ELSE (IF IsNew(k, t[1]) THEN <<t[1]>> ELSE <<>>) \o SelectNew(k, Tail(t))

\* the chunk texts minus what earlier chunks hold, concatenated
RECURSIVE Reconstruction(_)
Reconstruction(k) ==
    IF k = 0 THEN <<>>
    ELSE Reconstruction(k - 1) \o SelectNew(k, chunks[k].text)

RECURSIVE DocCells(_)
DocCells(i) == IF i = 0 THEN <<>> ELSE DocCells(i - 1) \o Cells(i, sents[i])

AllInputCells == {<<i, j, sents[i][j]>> : <<i, j>> \in
                    {ij \in (1..Len(sents)) \X (1..MaxSentLen) : ij[2] <= Len(sents[ij[1]])}}

ChunkCells == Seen(Len(chunks) + 1)

\* C1: for chunk_size > overlap >= 0 every chunk's text length is <= chunk_size
\* (at every point of the run, hence for the returned list).
C1_ChunkWithinSize ==
    ValidConfig => \A k \in 1..Len(chunks) : Len(chunks[k].text) <= chunk_size

\* C2: with overlap > 0, the chunk emitted after a chunk flushed on overflow begins
\* with the trailing `overlap` characters of the flushed chunk's text.
C2_NextChunkStartsWithOverlap ==
    (ValidConfig /\ overlap > 0) =>
        \A k \in flushed :
            k < Len(chunks) =>
                LET tail == TextOf(PySuffix(chunks[k].text, overlap))
                    nxt  == TextOf(chunks[k + 1].text)
                IN Len(nxt) >= Len(tail) /\ SubSeq(nxt, 1, Len(tail)) = tail

\* C3: for chunk_size > overlap >= 0 the returned chunks, minus what each repeats of
\* earlier chunks, reconstruct the sentences in order, and what a chunk repeats is a
\* region of at most `overlap` characters at its start.
C3_NoLossNoRepeatBeyondOverlap ==
    (ValidConfig /\ pst = "done") =>
        /\ Reconstruction(Len(chunks)) = DocCells(Len(sents))
        /\ \A k \in 1..Len(chunks) :
              \E n \in 0..overlap : DupPositions(k) \subseteq 1..n

\* C4: with overlap >= chunk_size the packer never returns normally with a chunk
\* list from which input text is missing (it rejects, or keeps every character).
C4_BadOverlapRejectedOrLossless ==
    (overlap >= chunk_size /\ pst = "done") => AllInputCells \subseteq ChunkCells



(***************************************************************************)
(* ask() of rag_service.py.  A string is a sequence of one-character       *)
(* strings; None is NoneStr.  A vector is a pair of integers and the       *)
(* cosine similarity is kept exact: <<n, d>> stands for n / sqrt(d).       *)
(***************************************************************************)
NoneStr == <<"<None>">>

Str_string    == <<"s", "t", "r", "i", "n", "g">>
Str_none      == <<"n", "o", "n", "e">>
Str_null      == <<"n", "u", "l", "l">>
Str_undefined == <<"u", "n", "d", "e", "f", "i", "n", "e", "d">>
Str_true      == <<"t", "r", "u", "e">>
Str_false     == <<"f", "a", "l", "s", "e">>

STOPWORDS_PLACEHOLDER ==
    {Str_string, Str_none, Str_null, Str_undefined, Str_true, Str_false}

\* str.lower() on the characters of the model
LowerChar(c) ==
    CASE c = "A" -> "a"
      [] c = "N" -> "n"
      [] c = "O" -> "o"
      [] c = "E" -> "e"
      [] c = "É" -> "é"
      [] OTHER -> c

\* unicodedata.normalize("NFD", .) with the marks (category Mn) dropped
Unaccent(c) == IF c = "é" THEN "e" ELSE c

RECURSIVE LStripStr(_)
LStripStr(t) == IF t # <<>> /\ t[1] = " " THEN LStripStr(Tail(t)) ELSE t

RECURSIVE RStripStr(_)
RStripStr(t) ==
    IF t # <<>> /\ t[Len(t)] = " " THEN RStripStr(SubSeq(t, 1, Len(t) - 1)) ELSE t

StripStr(t) == RStripStr(LStripStr(t))

\* " ".join(s.split())
RECURSIVE CollapseBlanks(_)
CollapseBlanks(t) ==
    LET u == LStripStr(t)
    IN IF u = <<>> THEN <<>>
       ELSE IF u[1] # " " /\ Len(u) > 1 /\ u[2] = " "
            THEN (IF LStripStr(Tail(u)) = <<>> THEN <<u[1]>>
                  ELSE <<u[1], " ">> \o CollapseBlanks(Tail(u)))
            ELSE <<u[1]>> \o (IF Len(u) > 1 /\ u[2] # " "
                              THEN CollapseBlanks(Tail(u)) ELSE <<>>)

normalize_text(t) ==
    IF t = NoneStr \/ t = <<>> THEN <<>>
    ELSE LET s1 == StripStr(t)
             s2 == [i \in 1..Len(s1) |-> Unaccent(LowerChar(s1[i]))]
             s3 == CollapseBlanks(s2)
         IN IF s3 \in STOPWORDS_PLACEHOLDER THEN <<>> ELSE s3

\* MatchText: text containment
IsSubstring(f, t) ==
    \E i \in 0..(Len(t) - Len(f)) : SubSeq(t, i + 1, i + Len(f)) = f

\* DEFAULT_MODEL, with EMBEDDINGS_MODEL unset
DEFAULT_MODEL ==
    <<"i", "n", "t", "f", "l", "o", "a", "t", "/", "m", "u", "l", "t", "i", "l", "i", "n",
      "g", "u", "a", "l", "-", "e", "5", "-", "s", "m", "a", "l", "l">>

\* _needs_prefix(model_name)
needs_prefix(model_name) ==
    LET name == [i \in 1..Len(model_name) |-> LowerChar(model_name[i])]
    IN IsSubstring(<<"e", "5">>, name) \/ IsSubstring(<<"g", "t", "e">>, name)

\* the prefix embed_texts puts before every text of the given kind
Prefix(kind) ==
    IF needs_prefix(DEFAULT_MODEL)
    THEN (IF kind = "query" THEN "query: " ELSE "passage: ")
    ELSE ""

\* embed_texts(texts, kind): the encoder on prefix + text
embed_texts(texts, kind) == [i \in 1..Len(texts) |-> <<"encode", Prefix(kind), texts[i]>>]

embed_passages(texts) == embed_texts(texts, "passage")

embed_query(text) == embed_texts(<<text>>, "query")[1]

NoVec == <<>>

Dot(a, b) == a[1] * b[1] + a[2] * b[2]

\* cos_sim(a, b) as <<dot, |a|^2 |b|^2>>, and <<0, 1>> when a norm is 0
cos_sim(a, b) ==
    LET da == Dot(a, a)
        db == Dot(b, b)
    IN IF da = 0 \/ db = 0 THEN <<0, 1>> ELSE <<Dot(a, b), da * db>>

\* sim = cos_sim(qvec, pvec) if pvec is not None else 0.0
SimOf(q, p) == IF p.vector = NoVec THEN <<0, 1>> ELSE cos_sim(q, p.vector)

SignedSq(n) == IF n >= 0 THEN n * n ELSE 0 - (n * n)

\* x < y for similarities x, y
SimLess(x, y) == SignedSq(x[1]) * y[2] < SignedSq(y[1]) * x[2]

\* list.sort(key=sim, reverse=True): stable, equal keys keep their order.
\* Insert e behind every element whose key is not smaller.
RECURSIVE InsertDesc(_, _, _)
InsertDesc(q, sorted, e) ==
    IF sorted = <<>> THEN <<e>>
    ELSE IF SimLess(SimOf(q, sorted[1]), SimOf(q, e))
         THEN <<e>> \o sorted
         ELSE <<sorted[1]>> \o InsertDesc(q, Tail(sorted), e)

RECURSIVE SortDesc(_, _, _)
SortDesc(q, acc, rest) ==
    IF rest = <<>> THEN acc
    ELSE SortDesc(q, InsertDesc(q, acc, rest[1]), Tail(rest))

\* s[:k]
PyPrefix(s, k) ==
    IF k >= 0 THEN SubSeq(s, 1, Min(k, Len(s))) ELSE SubSeq(s, 1, Max(Len(s) + k, 0))

\* faulty variant: the candidates are cut to top_k in the index's order, not re-ranked
Rerank_IndexOrder(q, ps, k) == PyPrefix(ps, k)

\* ranked.sort(key=lambda t: t[1], reverse=True); top = [p for (p, _) in ranked[: top_k]]
Rerank(q, ps, k) == PyPrefix(SortDesc(q, <<>>, ps), k)

\* faulty variant: the lower clamp max(., top_k) is missing
InitialK_NoFloor(k) == Min(k * 3, 50)

\* initial_k = min(max(req.top_k * 3, req.top_k), 50)
InitialK(k) == Min(Max(k * 3, k), 50)

NoFilter == NoneStr

\* qfilter = None, or the MatchText filter on "text" with the raw filter_text
BuildFilter(ft) == IF normalize_text(ft) # <<>> THEN ft ELSE NoFilter

RECURSIVE Matching(_, _)
Matching(ps, f) ==
    IF ps = <<>> THEN <<>>
    ELSE (IF f = NoFilter \/ (ps[1].has_payload /\ IsSubstring(f, ps[1].text))
          THEN <<ps[1]>> ELSE <<>>)
         \o Matching(Tail(ps), f)

\* client.query_points(limit, query_filter).points: the first `limit` matching
\* points in the index's own order, each with the index's score; nothing for a
\* limit below 1 (when the index does not refuse it, see AskQueryFails)
QueryPoints(limit, f) ==
    LET m == Matching(collection, f)
    IN IF limit >= 1 THEN SubSeq(m, 1, Min(limit, Len(m))) ELSE <<>>

NoContextAnswer == "No se encontró contexto relevante en la base vectorial."

DebugFilter == IF req.filter_text = NoneStr \/ req.filter_text = <<>>
               THEN NoneStr ELSE req.filter_text

\* raise HTTPException(status_code=500, detail=f"Error en ask(): {e}")
ErrorResponse(e) == [kind |-> "error", status |-> 500, detail |-> <<"Error en ask()", e>>]


AskFrame == UNCHANGED <<packVars, indexVars, extVars, collection, req, prev, askRun>>

\* qvec = embed_query(req.question): any vector the gateway returns
AskEmbed ==
    /\ apc = "embed"
    /\ \E v \in {<<1, 0>>, <<1, 1>>} : qvec' = v
    /\ apc' = "query"
    /\ UNCHANGED <<qfilter, initial_k, pts, top, resp, genCalls>>
    /\ Called("ask", "embed_query", TRUE, Prefix("query"))
    /\ AskFrame

AskEmbedFails ==
    /\ apc = "embed"
    /\ resp' = ErrorResponse("embed_query")
    /\ apc' = "done"
    /\ UNCHANGED <<qvec, qfilter, initial_k, pts, top, genCalls>>
    /\ Called("ask", "embed_query", FALSE, Prefix("query"))
    /\ AskFrame

\* qfilter, initial_k, pts = client.query_points(...).points
AskQuery ==
    /\ apc = "query"
    /\ qfilter' = BuildFilter(req.filter_text)
    /\ initial_k' = InitialK(req.top_k)
    /\ pts' = QueryPoints(initial_k', qfilter')
    /\ apc' = "fetched"
    /\ UNCHANGED <<qvec, top, resp, genCalls>>
    /\ Called("ask", "query_points", TRUE, "")
    /\ AskFrame

\* the index is unreachable, or it refuses the limit
AskQueryFails ==
    /\ apc = "query"
    /\ qfilter' = BuildFilter(req.filter_text)
    /\ initial_k' = InitialK(req.top_k)
    /\ resp' = ErrorResponse("query_points")
    /\ apc' = "done"
    /\ UNCHANGED <<qvec, pts, top, genCalls>>
    /\ Called("ask", "query_points", FALSE, "")
    /\ AskFrame

\* faulty variant: no early return, the generation service is asked with an empty context
AskNoContext_CallsGeneration ==
    /\ apc = "fetched"
    /\ pts = <<>>
    /\ genCalls' = genCalls + 1
    /\ resp' = [kind |-> "ok", answer |-> "resp.text", sources |-> <<>>,
                debug |-> [none |-> TRUE]]
    /\ apc' = "done"
    /\ UNCHANGED <<qvec, qfilter, initial_k, pts, top>>
    /\ Called("ask", "generate_content", TRUE, "")
    /\ AskFrame

\* if not pts: return the no-context response
AskNoContext ==
    /\ apc = "fetched"
    /\ pts = <<>>
    /\ resp' = [kind |-> "ok", answer |-> NoContextAnswer, sources |-> <<>>,
                debug |-> IF req.debug THEN [filter_text_used |-> DebugFilter]
                          ELSE [none |-> TRUE]]
    /\ apc' = "done"
    /\ UNCHANGED <<qvec, qfilter, initial_k, pts, top, genCalls>>
    /\ UNCHANGED calls
    /\ AskFrame

Reverse(ps) == [i \in 1..Len(ps) |-> ps[Len(ps) + 1 - i]]

\* faulty variant: the sort is not stable, candidates of equal similarity come out
\* in one order or the other
AskRerank_Unstable ==
    /\ apc = "fetched"
    /\ pts # <<>>
    /\ top' \in {Rerank(qvec, pts, req.top_k), Rerank(qvec, Reverse(pts), req.top_k)}
    /\ apc' = "generate"
    /\ UNCHANGED <<qvec, qfilter, initial_k, pts, resp, genCalls>>
    /\ UNCHANGED calls
    /\ AskFrame

\* re-rank by local cosine similarity, cut to top_k
AskRerank ==
    /\ apc = "fetched"
    /\ pts # <<>>
    /\ top' = Rerank(qvec, pts, req.top_k)
    /\ apc' = "generate"
    /\ UNCHANGED <<qvec, qfilter, initial_k, pts, resp, genCalls>>
    /\ UNCHANGED calls
    /\ AskFrame

\* p is truthy as p.payload: the point has a payload and it is not empty
HasPayload(p) == p.has_payload

\* [p.payload.get("text", "") for p in top if p.payload]
Snippets == LET kept == SelectSeq(top, HasPayload) IN [i \in 1..Len(kept) |-> kept[i].text]

\* [p.payload.get("source") for p in top if p.payload]
Sources == LET kept == SelectSeq(top, HasPayload) IN [i \in 1..Len(kept) |-> kept[i].source]

\* (p.payload or {}).get("chunk_id"), with 0 for None (the chunk ids start at 1)
HitChunkId(p) == IF HasPayload(p) THEN p.chunk_id ELSE 0

\* resp = model.generate_content(prompt); return out
AskGenerate ==
    /\ apc = "generate"
    /\ genCalls' = genCalls + 1
    /\ resp' = [kind |-> "ok", answer |-> "resp.text", sources |-> Sources,
                debug |-> IF req.debug
                          THEN [filter_text_used |-> DebugFilter,
                                hits |-> [i \in 1..Len(top) |->
                                            [qdrant_score |-> top[i].score,
                                             chunk_id |-> HitChunkId(top[i])]]]
                          ELSE [none |-> TRUE]]
    /\ apc' = "done"
    /\ UNCHANGED <<qvec, qfilter, initial_k, pts, top>>
    /\ Called("ask", "generate_content", TRUE, "")
    /\ AskFrame

\* faulty variant: the failure of the generation service is swallowed and a canned
\* answer is returned as a success
AskGenerateFails_Fallback ==
    /\ apc = "generate"
    /\ genCalls' = genCalls + 1
    /\ resp' = [kind |-> "ok", answer |-> NoContextAnswer, sources |-> Sources,
                debug |-> [none |-> TRUE]]
    /\ apc' = "done"
    /\ UNCHANGED <<qvec, qfilter, initial_k, pts, top>>
    /\ Called("ask", "generate_content", FALSE, "")
    /\ AskFrame

AskGenerateFails ==
    /\ apc = "generate"
    /\ genCalls' = genCalls + 1
    /\ resp' = ErrorResponse("generate_content")
    /\ apc' = "done"
    /\ UNCHANGED <<qvec, qfilter, initial_k, pts, top>>
    /\ Called("ask", "generate_content", FALSE, "")
    /\ AskFrame

AskNext ==
    \/ AskEmbed
    \/ AskEmbedFails
    \/ AskQuery
    \/ AskQueryFails
    \/ AskNoContext
    \/ AskRerank
    \/ AskGenerate
    \/ AskGenerateFails

PackIdle_Locals ==
    /\ sents = <<>>
    /\ chunk_size = 1
    /\ overlap = 0
    /\ chunks = <<>>
    /\ buf = <<>>
    /\ buf_len = 0
    /\ cid = 0
    /\ si = 1
    /\ pst = "done"
    /\ flushed = {}

PointVectors == {<<1, 0>>, <<0, 1>>, <<2, 0>>, NoVec}
PointScores  == {1, 2}

\* the point at position i of the index's order
PointAt(i, v, sc) ==
    [id |-> i, has_payload |-> TRUE, vector |-> v, score |-> sc,
     text |-> IF i % 3 = 1 THEN <<"a">> ELSE IF i % 3 = 2 THEN <<"b", "a">> ELSE <<"b">>,
     source |-> IF i % 2 = 1 THEN <<"x">> ELSE <<"y">>,
     chunk_id |-> i]

Collections ==
    UNION {{[i \in 1..n |-> PointAt(i, vs[i], ss[i])] :
              <<vs, ss>> \in [1..n -> PointVectors] \X [1..n -> PointScores]} :
           n \in 0..MaxPoints}

FilterTexts == {NoneStr, Str_none, <<"a">>}

AskStart ==
    /\ prev = NoPrev
    /\ askRun = 0
    /\ apc = "embed"
    /\ qvec = <<0, 0>>
    /\ qfilter = NoFilter
    /\ initial_k = 0
    /\ pts = Unset
    /\ top = Unset
    /\ resp = Unset
    /\ genCalls = 0

AskInit ==
    /\ PackIdle_Locals
    /\ IndexIdle
    /\ ExtIdle
    /\ AskStart
    /\ collection \in Collections
    /\ req \in [top_k : 1..MaxTopK, filter_text : FilterTexts, debug : BOOLEAN]

SpecAsk == AskInit /\ [][AskNext]_vars

\* requests with any top_k, on a collection of one point
AskKInit ==
    /\ PackIdle_Locals
    /\ IndexIdle
    /\ ExtIdle
    /\ AskStart
    /\ collection \in {<<PointAt(1, <<1, 0>>, 1)>>, <<PointAt(1, <<0, 1>>, 2), PointAt(2, <<1, 0>>, 1)>>}
    /\ req \in [top_k : (0 - MaxReqTopK)..MaxReqTopK, filter_text : {NoneStr, <<"b">>},
                debug : {FALSE}]

SpecAskK == AskKInit /\ [][AskNext]_vars


(***************************************************************************)
(* Index maintenance: scripts/upsert_chunks.py (deterministic ids) and     *)
(* delete_by_source of rag_service.py.  The store maps a point id to its   *)
(* vector and payload.  An id is <<"uuid5", name>> (uuid.uuid5 of a name)  *)
(* or <<"uuid4", n>> (the n-th uuid4 drawn); an embedding is the symbolic  *)
(* value of the encoder on its input.                                      *)
(***************************************************************************)
ScrollLimit == 1000

\* uuid.uuid5(uuid.NAMESPACE_URL, name): one id per name
uuid5(name) == <<"uuid5", name>>

\* faulty variant: the id is taken from the text as it is, not trimmed
det_uuid_Untrimmed(text) == uuid5(text)

\* det_uuid(text) = str(uuid.uuid5(uuid.NAMESPACE_URL, text.strip()))
det_uuid(text) == uuid5(StripStr(text))

\* embed(texts): the legacy alias, every text is a passage
embed(texts) == embed_passages(texts)

\* payload = {k: v for k, v in d.items() if k != "id"}; payload["hash"] = hid
DocPayload(d, hid) ==
    [k \in ((DOMAIN d) \ {"id"}) \cup {"hash"} |-> IF k = "hash" THEN hid ELSE d[k]]

\* the points main() builds from docs, in order
DocPoints(docs) ==
    LET vectors == embed([i \in 1..Len(docs) |-> docs[i].text])
    IN [i \in 1..Len(docs) |->
          LET hid == det_uuid(docs[i].text)
          IN [id |-> hid, vector |-> vectors[i], payload |-> DocPayload(docs[i], hid)]]

Put(f, k, v) == [x \in (DOMAIN f) \cup {k} |-> IF x = k THEN v ELSE f[x]]

\* client.upsert(points): each point replaces the point of its id, in order
RECURSIVE UpsertPoints(_, _)
UpsertPoints(idx, points) ==
    IF points = <<>> THEN idx
    ELSE UpsertPoints(Put(idx, points[1].id,
                          [vector |-> points[1].vector, payload |-> points[1].payload]),
                      Tail(points))

\* Filter(must=[FieldCondition(key="source", match=MatchText(text=source))])
MatchesSource(rec, source) == IsSubstring(source, rec.payload.source)

MatchingIds(idx, source) == {i \in DOMAIN idx : MatchesSource(idx[i], source)}

\* len(client.scroll(scroll_filter, limit)[0])
ScrollCount(idx, source, limit) == Min(Cardinality(MatchingIds(idx, source)), limit)

Restrict(f, S) == [x \in S |-> f[x]]

RECURSIVE SomeOf(_, _)
SomeOf(S, n) ==
    IF n <= 0 \/ S = {} THEN {}
    ELSE LET x == CHOOSE y \in S : TRUE IN {x} \cup SomeOf(S \ {x}, n - 1)

\* faulty variant: only the points the scroll returned are deleted
DeleteMatching_OnlyScrolled(idx, source) ==
    LET m == MatchingIds(idx, source)
    IN Restrict(idx, (DOMAIN idx \ m) \cup SomeOf(m, Cardinality(m) - ScrollLimit))

\* faulty variant: the selector matches the source label exactly (MatchValue)
DeleteMatching_ExactSource(idx, source) ==
    Restrict(idx, {i \in DOMAIN idx : idx[i].payload.source # source})

\* client.delete(points_selector=qfilter): every matching point is removed
DeleteMatching(idx, source) == Restrict(idx, DOMAIN idx \ MatchingIds(idx, source))

IndexFrame == UNCHANGED <<packVars, askVars, extVars, dreq>>

DocTexts == {<<"a">>, <<"a", " ">>, <<"b">>, <<" ", "b">>}

\* row = {**d, "page": ..., "section": text, "source": "informe_....pdf"}
EnrichedRow(d) ==
    [id |-> d.id, text |-> d.text, page |-> 0, section |-> d.text, source |-> <<"p">>]

\* the lines of chunks.jsonl as chunking.main writes them: {"id", "text", "source"}
ChunkRows ==
    UNION {{[i \in 1..n |-> [id |-> i - 1, text |-> ts[i], source |-> <<"z">>]] :
              ts \in [1..n -> DocTexts]} : n \in 1..MaxDocs}

\* the file upsert_chunks.main reads: as chunking wrote it, or (the shorter
\* files) as metadata_enricher.main rewrote it
DocLists ==
    ChunkRows \cup {[i \in 1..Len(ds) |-> EnrichedRow(ds[i])] :
                      ds \in {r \in ChunkRows : Len(r) < MaxDocs}}

\* a run of upsert_chunks.main()
DetUpsert ==
    /\ runs < MaxRuns
    /\ \E docs \in DocLists :
          /\ index' = UpsertPoints(index, DocPoints(docs))
          /\ lastDocs' = docs
          /\ beforeRun' = index
    /\ runs' = runs + 1
    /\ interfered' = (interfered \/ dpc # "scroll")
    /\ UNCHANGED <<dpc, deleted_estimate, dresp, atScroll>>
    /\ calls' = [calls EXCEPT !["upsert_chunks"] =
                    <<[call |-> "embed", ok |-> TRUE, mode |-> Prefix("passage")],
                      [call |-> "upsert", ok |-> TRUE, mode |-> ""]>>]
    /\ IndexFrame

\* a run that fails (the encoder or the index raises): nothing is written
DetUpsertFails ==
    /\ runs < MaxRuns
    /\ runs' = runs + 1
    /\ UNCHANGED <<index, lastDocs, beforeRun, interfered, dpc, deleted_estimate, dresp,
                   atScroll>>
    /\ \E failed \in {"embed", "upsert"} :
          calls' = [calls EXCEPT !["upsert_chunks"] =
                      IF failed = "embed"
                      THEN <<[call |-> "embed", ok |-> FALSE, mode |-> Prefix("passage")]>>
                      ELSE <<[call |-> "embed", ok |-> TRUE, mode |-> Prefix("passage")],
                             [call |-> "upsert", ok |-> FALSE, mode |-> ""]>>]
    /\ IndexFrame

\* scroll_res = client.scroll(...); deleted_estimate = len(scroll_res[0])
DeleteScroll ==
    /\ dpc = "scroll"
    /\ deleted_estimate' = ScrollCount(index, dreq.source, ScrollLimit)
    /\ atScroll' = index
    /\ dpc' = "delete"
    /\ UNCHANGED <<index, runs, lastDocs, beforeRun, dresp, interfered>>
    /\ Called("delete_by_source", "scroll", TRUE, "")
    /\ IndexFrame

DeleteScrollFails ==
    /\ dpc = "scroll"
    /\ dresp' = [kind |-> "error", status |-> 500,
                 detail |-> <<"Error en delete_by_source()", "scroll">>]
    /\ dpc' = "done"
    /\ UNCHANGED <<index, runs, lastDocs, beforeRun, deleted_estimate, atScroll, interfered>>
    /\ Called("delete_by_source", "scroll", FALSE, "")
    /\ IndexFrame

\* client.delete(...); return {"status": "ok", "deleted_estimate": ..., "source": ...}
DeleteDelete ==
    /\ dpc = "delete"
    /\ index' = DeleteMatching(index, dreq.source)
    /\ dresp' = [kind |-> "ok", status |-> "ok", deleted_estimate |-> deleted_estimate,
                 source |-> dreq.source]
    /\ dpc' = "done"
    /\ UNCHANGED <<runs, lastDocs, beforeRun, deleted_estimate, atScroll, interfered>>
    /\ Called("delete_by_source", "delete", TRUE, "")
    /\ IndexFrame

DeleteDeleteFails ==
    /\ dpc = "delete"
    /\ dresp' = [kind |-> "error", status |-> 500,
                 detail |-> <<"Error en delete_by_source()", "delete">>]
    /\ dpc' = "done"
    /\ UNCHANGED <<index, runs, lastDocs, beforeRun, deleted_estimate, atScroll, interfered>>
    /\ Called("delete_by_source", "delete", FALSE, "")
    /\ IndexFrame

IndexNext ==
    \/ DetUpsert
    \/ DetUpsertFails
    \/ DeleteScroll
    \/ DeleteScrollFails
    \/ DeleteDelete
    \/ DeleteDeleteFails

\* a point written earlier by the API upsert: uuid4 id, payload of upsert()
ApiPoint(text, source) ==
    [vector |-> <<"encode", "passage: ", text>>,
     payload |-> [text |-> text, source |-> source, page |-> <<>>, chunk_id |-> 1,
                  created_at |-> 0]]

\* an index holding nx, nxy and nz points of source "x", "xy" and "z"
StoredIndex(nx, nxy, nz) ==
    [i \in {<<"uuid4", n>> : n \in 1..(nx + nxy + nz)} |->
        ApiPoint(<<"a">>, IF i[2] <= nx THEN <<"x">>
                          ELSE IF i[2] <= nx + nxy THEN <<"x", "y">> ELSE <<"z">>)]

\* the bulk script alone, run after run, on a small index
IngestNext ==
    \/ DetUpsert
    \/ DetUpsertFails

IngestInit ==
    /\ PackIdle_Locals
    /\ AskIdle_Locals
    /\ ExtIdle
    /\ \E nx \in 0..1, nz \in 0..1 : index = StoredIndex(nx, 0, nz)
    /\ runs = 0
    /\ lastDocs = <<>>
    /\ beforeRun = <<>>
    /\ dreq = Unset
    /\ dpc = "done"
    /\ deleted_estimate = 0
    /\ dresp = Unset
    /\ atScroll = <<>>
    /\ interfered = FALSE

SpecIngest == IngestInit /\ [][IngestNext]_vars

\* the stored indexes a delete_by_source request meets: small ones, and ones
\* with ScrollLimit and more points of one source
StoredIndexes ==
    {StoredIndex(c[1], c[2], c[3]) :
        c \in ((0..MaxPerSource) \X (0..1) \X (0..(MaxPerSource - 1)))
               \cup ({ScrollLimit, ScrollLimit + 1} \X {0} \X {1})}

\* one delete_by_source request, and the last run of the bulk script beside it
IndexInit ==
    /\ PackIdle_Locals
    /\ AskIdle_Locals
    /\ ExtIdle
    /\ index \in StoredIndexes
    /\ runs = MaxRuns - 1
    /\ lastDocs = <<>>
    /\ beforeRun = <<>>
    /\ dreq \in [source : {<<"x">>, <<"z">>}]
    /\ dpc = "scroll"
    /\ deleted_estimate = 0
    /\ dresp = Unset
    /\ atScroll = <<>>
    /\ interfered = FALSE

SpecIndex == IndexInit /\ [][IndexNext]_vars


(***************************************************************************)
(* Properties of ask                                                       *)
(***************************************************************************)
\* the query was issued: initial_k and qfilter are assigned
QueryIssued ==
    \/ apc \in {"fetched", "generate"}
    \/ apc = "done" /\ ~(resp.kind = "error" /\ resp.detail[2] = "embed_query")

\* top is assigned
Ranked == apc = "generate" \/ (apc = "done" /\ genCalls > 0)

SimEq(x, y) == ~SimLess(x, y) /\ ~SimLess(y, x)

PosIn(ps, p) == CHOOSE j \in 1..Len(ps) : ps[j].id = p.id

\* a comes strictly before b in the order "similarity descending, ties by
\* retrieval order" of the pool ps
RanksBefore(q, ps, a, b) ==
    \/ SimLess(SimOf(q, b), SimOf(q, a))
    \/ SimEq(SimOf(q, a), SimOf(q, b)) /\ PosIn(ps, a) < PosIn(ps, b)

Ids(ps) == [i \in 1..Len(ps) |-> ps[i].id]

\* the same pool with other index-reported scores
OtherScores(ps) == [i \in 1..Len(ps) |-> [ps[i] EXCEPT !.score = 3 - ps[i].score]]

\* C5: when the index query returns zero candidates, the generation service is
\* not called at any point of the request and the request ends with the normal
\* response {answer: the fixed no-context message, sources: []}.
C5_NoContextNoGeneration ==
    pts = <<>> =>
        /\ genCalls = 0
        /\ apc = "done" =>
              /\ resp.kind = "ok"
              /\ resp.answer = NoContextAnswer
              /\ resp.sources = <<>>

C5_Witness ==
    /\ apc = "done"
    /\ collection = <<>>
    /\ pts = <<>>
    /\ resp.kind = "ok"

\* C6: the selected candidates are exactly the first top_k of the fetched
\* candidates in the order "local cosine similarity descending, equal
\* similarities in retrieval order", and a pool that differs only in the
\* index-reported scores gives the same selection in the same order.
C6_SelectionIsStableTopK ==
    Ranked =>
        /\ Len(top) = Min(req.top_k, Len(pts))
        /\ \A i \in 1..Len(top) : \E j \in 1..Len(pts) : pts[j] = top[i]
        /\ \A i, j \in 1..Len(top) : i < j => RanksBefore(qvec, pts, top[i], top[j])
        /\ \A j \in 1..Len(pts) :
              (\A i \in 1..Len(top) : top[i] # pts[j]) =>
                  \A i \in 1..Len(top) : RanksBefore(qvec, pts, top[i], pts[j])
        /\ Ids(Rerank(qvec, OtherScores(pts), req.top_k)) = Ids(top)

C6_Witness ==
    /\ Ranked
    /\ Len(pts) > Len(top)
    /\ Len(top) >= 2
    /\ top[1].id # pts[1].id
    /\ SimEq(SimOf(qvec, top[1]), SimOf(qvec, top[2]))
    /\ top[1].score < top[2].score

\* clamp(x, lo, hi)
Clamp(x, lo, hi) == IF x < lo THEN lo ELSE IF x > hi THEN hi ELSE x

\* C7 as claimed: initial_k is never below top_k and never above 50, for any top_k
\* a request can carry.
C7_NeverBelowTopK ==
    QueryIssued => (initial_k >= req.top_k /\ initial_k <= 50)

\* C7 amended: initial_k = min(max(top_k * 3, top_k), 50); it is never above 50,
\* and never below top_k as long as top_k <= 50 (for top_k > 50 it is 50); it is
\* 15 for top_k = 5, 50 for top_k = 20 and 3 for top_k = 1.
C7_InitialKClamped ==
    QueryIssued =>
        /\ initial_k = Clamp(req.top_k * 3, req.top_k, 50)
        /\ initial_k <= 50
        /\ req.top_k <= 50 => initial_k >= req.top_k
        /\ req.top_k > 50 => initial_k = 50
        /\ req.top_k = 5 => initial_k = 15
        /\ req.top_k = 20 => initial_k = 50
        /\ req.top_k = 1 => initial_k = 3

C7_Witness ==
    /\ QueryIssued
    /\ req.top_k = 20
    /\ initial_k = 50


(***************************************************************************)
(* Properties of the index maintenance                                     *)
(***************************************************************************)
\* written by the deterministic-id path: the payload carries "hash"
IsDet(rec) == "hash" \in DOMAIN rec.payload

DetIdsOf(idx, text) ==
    {i \in DOMAIN idx : IsDet(idx[i]) /\ StripStr(idx[i].payload.text) = StripStr(text)}

\* every doc of the run carries a text the deterministic path had ingested before
Reingestion ==
    /\ lastDocs # <<>>
    /\ \A k \in 1..Len(lastDocs) : DetIdsOf(beforeRun, lastDocs[k].text) # {}

\* every doc of the run is stored already exactly as the run writes it
IdenticalReingestion ==
    /\ lastDocs # <<>>
    /\ \A k \in 1..Len(lastDocs) :
          LET pt == DocPoints(lastDocs)[k]
          IN /\ pt.id \in DOMAIN beforeRun
             /\ beforeRun[pt.id] = [vector |-> pt.vector, payload |-> pt.payload]

\* C8 as claimed: ingesting chunk texts that were ingested before (also with
\* different surrounding whitespace) leaves the index state as it was.
C8_ReingestionKeepsState == Reingestion => index = beforeRun

\* C8 amended: the record id is a function of the trimmed text only, so the
\* deterministic path keeps exactly one record per trimmed text and ingesting a
\* text again adds no record and touches no other record; the index state is the
\* same after the second ingestion when the chunk is identical (same surrounding
\* whitespace too), otherwise the one record carries the text of the last ingestion.
C8_OneRecordPerTrimmedText ==
    /\ \A i \in DOMAIN index :
          IsDet(index[i]) =>
              /\ i = uuid5(StripStr(index[i].payload.text))
              /\ DetIdsOf(index, index[i].payload.text) = {i}
    /\ \A k \in 1..Len(lastDocs) : Cardinality(DetIdsOf(index, lastDocs[k].text)) = 1
    /\ Reingestion =>
          /\ DOMAIN index = DOMAIN beforeRun
          /\ \A i \in DOMAIN index : ~IsDet(index[i]) => index[i] = beforeRun[i]
    /\ IdenticalReingestion => index = beforeRun

C8_Witness ==
    /\ Reingestion
    /\ index # beforeRun
    /\ DOMAIN index = DOMAIN beforeRun

DeleteOk == dpc = "done" /\ dresp.kind = "ok"

\* the records that matched the source when the scroll was answered
MatchedAtScroll == MatchingIds(atScroll, dreq.source)

\* C9: after delete_by_source(s) on an index nobody else writes, no record matching
\* s remains, every non-matching record is still there unchanged, the record count
\* has dropped by exactly the number that matched; with 3 matching and 2
\* non-matching records deleted_estimate is 3 and 2 records remain.
C9_DeleteFrame ==
    (DeleteOk /\ ~interfered) =>
        /\ MatchingIds(index, dreq.source) = {}
        /\ DOMAIN index = DOMAIN atScroll \ MatchedAtScroll
        /\ \A i \in DOMAIN index : index[i] = atScroll[i]
        /\ Cardinality(DOMAIN index)
             = Cardinality(DOMAIN atScroll) - Cardinality(MatchedAtScroll)
        /\ (Cardinality(MatchedAtScroll) = 3 /\ Cardinality(DOMAIN atScroll) = 5) =>
              (dresp.deleted_estimate = 3 /\ Cardinality(DOMAIN index) = 2)

C9_Witness ==
    /\ DeleteOk
    /\ ~interfered
    /\ Cardinality(MatchedAtScroll) = 3
    /\ Cardinality(DOMAIN atScroll) = 5
    /\ dresp.deleted_estimate = 3
    /\ Cardinality(DOMAIN index) = 2

\* C10: deleted_estimate is min(m, 1000) for the m records matching at the scroll,
\* exact for m <= 1000 and strictly below m for m > 1000, while the delete removes
\* all m matching records.
C10_EstimateIsCappedCount ==
    (dpc = "delete" \/ DeleteOk) =>
        LET m == Cardinality(MatchedAtScroll)
        IN /\ m <= ScrollLimit => deleted_estimate = m
           /\ m > ScrollLimit => (deleted_estimate = ScrollLimit /\ deleted_estimate < m)
           /\ DeleteOk => dresp.deleted_estimate = deleted_estimate
           /\ (DeleteOk /\ ~interfered) =>
                 /\ MatchingIds(index, dreq.source) = {}
                 /\ Cardinality(DOMAIN atScroll) - Cardinality(DOMAIN index) = m

C10_Witness ==
    /\ DeleteOk
    /\ ~interfered
    /\ Cardinality(MatchedAtScroll) = ScrollLimit + 1
    /\ dresp.deleted_estimate = ScrollLimit
    /\ MatchingIds(index, dreq.source) = {}


(***************************************************************************)
(* stats() of rag_service.py.  The scroll walks the points in the order    *)
(* of their ids; every id of the collection is a uuid string (uuid4().hex  *)
(* of upsert, uuid5 of the bulk script), so a continuation token is never  *)
(* falsy.  IdNum is that order on the ids <<"uuid4", n>>.                  *)
(***************************************************************************)
StatsPageSize == 1000

Str_unknown == <<"u", "n", "k", "n", "o", "w", "n">>

IdNum(i) == i[2]

\* (p.payload or {}).get("source", "unknown")
Label(rec) == IF "source" \in DOMAIN rec.payload THEN rec.payload.source ELSE Str_unknown

\* faulty variant: the continuation token is dropped
ScrollPage_NoToken(idx, offset, limit) ==
    LET cand == {i \in DOMAIN idx : offset = NoToken \/ IdNum(i) >= IdNum(offset)}
        page == IF Cardinality(cand) <= limit THEN cand
                ELSE {i \in cand : Cardinality({j \in cand : IdNum(j) < IdNum(i)}) < limit}
    IN [points |-> page, next_page |-> NoToken]

\* client.scroll(limit, offset): the first `limit` points from offset on, and
\* the id of the point after them (None when there is none)
ScrollPage(idx, offset, limit) ==
    LET cand == {i \in DOMAIN idx : offset = NoToken \/ IdNum(i) >= IdNum(offset)}
        page == IF Cardinality(cand) <= limit THEN cand
                ELSE {i \in cand : Cardinality({j \in cand : IdNum(j) < IdNum(i)}) < limit}
        rest == cand \ page
    IN [points |-> page,
        next_page |-> IF rest = {} THEN NoToken
                      ELSE CHOOSE i \in rest : \A j \in rest : IdNum(i) <= IdNum(j)]

\* for p in points: by_source[src] = by_source.get(src, 0) + 1
Tally(by, idx, points) ==
    [l \in (DOMAIN by) \cup {Label(idx[i]) : i \in points} |->
        (IF l \in DOMAIN by THEN by[l] ELSE 0)
          + Cardinality({i \in points : Label(idx[i]) = l})]

\* raise HTTPException(status_code=500, detail=f"Error obteniendo stats(): {e}")
StatsError(e) == [kind |-> "error", status |-> 500, detail |-> <<"Error obteniendo stats()", e>>]

StatsFrame == UNCHANGED <<packVars, askVars, indexVars, upsertVars, healthVars, queryVars,
                          guessVars, modelVars, auxVars>>

\* total = client.count(exact=True).count; by_source = {}; next_page = None
StatsCount ==
    /\ spc = "count"
    /\ total' = Cardinality(DOMAIN index)
    /\ by_source' = <<>>
    /\ next_page' = NoToken
    /\ spc' = "scroll"
    /\ UNCHANGED <<sresp, pages>>
    /\ Called("stats", "count", TRUE, "")
    /\ StatsFrame

StatsCountFails ==
    /\ spc = "count"
    /\ sresp' = StatsError("count")
    /\ spc' = "done"
    /\ UNCHANGED <<total, by_source, next_page, pages>>
    /\ Called("stats", "count", FALSE, "")
    /\ StatsFrame

\* one turn of the while loop that goes on: next_page is truthy
StatsScrollMore ==
    /\ spc = "scroll"
    /\ LET r == ScrollPage(index, next_page, StatsPageSize)
       IN /\ r.next_page # NoToken
          /\ by_source' = Tally(by_source, index, r.points)
          /\ next_page' = r.next_page
          /\ pages' = Append(pages, <<Cardinality(r.points), TRUE>>)
    /\ UNCHANGED <<spc, total, sresp>>
    /\ Called("stats", "scroll", TRUE, "")
    /\ StatsFrame

\* the last turn: not next_page, break and return
StatsScrollLast ==
    /\ spc = "scroll"
    /\ LET r == ScrollPage(index, next_page, StatsPageSize)
       IN /\ r.next_page = NoToken
          /\ by_source' = Tally(by_source, index, r.points)
          /\ next_page' = r.next_page
          /\ pages' = Append(pages, <<Cardinality(r.points), FALSE>>)
          /\ sresp' = [kind |-> "ok", total_points |-> total, sources |-> by_source']
    /\ spc' = "done"
    /\ UNCHANGED total
    /\ Called("stats", "scroll", TRUE, "")
    /\ StatsFrame

StatsScrollFails ==
    /\ spc = "scroll"
    /\ sresp' = StatsError("scroll")
    /\ spc' = "done"
    /\ UNCHANGED <<total, by_source, next_page, pages>>
    /\ Called("stats", "scroll", FALSE, "")
    /\ StatsFrame

StatsNext ==
    \/ StatsCount
    \/ StatsCountFails
    \/ StatsScrollMore
    \/ StatsScrollLast
    \/ StatsScrollFails

\* a point that was stored without a source in its payload
UnlabelledPoint ==
    [vector |-> <<"encode", "passage: ", <<"a">>>>, payload |-> [text |-> <<"a">>]]

\* the indexes stats meets: small ones, ones of one, two and three pages, each
\* with or without an unlabelled point
StatsIndexes ==
    LET base == {StoredIndex(c[1], c[2], c[3]) :
                    c \in ((0..MaxPerSource) \X (0..1) \X (0..(MaxPerSource - 1)))
                           \cup {<<StatsPageSize - 1, 0, 1>>, <<StatsPageSize, 0, 1>>,
                                 <<StatsPageSize, StatsPageSize, 1>>}}
    IN base \cup {Put(b, <<"uuid4", Cardinality(DOMAIN b) + 1>>, UnlabelledPoint) : b \in base}

StatsInit ==
    /\ PackIdle_Locals
    /\ AskIdle_Locals
    /\ index \in StatsIndexes
    /\ runs = 0
    /\ lastDocs = <<>>
    /\ beforeRun = <<>>
    /\ dreq = Unset
    /\ dpc = "done"
    /\ deleted_estimate = 0
    /\ dresp = Unset
    /\ atScroll = <<>>
    /\ interfered = FALSE
    /\ spc = "count"
    /\ total = 0
    /\ by_source = <<>>
    /\ next_page = NoToken
    /\ sresp = Unset
    /\ pages = <<>>
    /\ UpsertIdle
    /\ HealthIdle
    /\ QueryIdle
    /\ GuessIdle
    /\ ModelIdle
    /\ AuxIdle
    /\ calls = NoCalls

SpecStats == StatsInit /\ [][StatsNext]_vars

StatsOk == spc = "done" /\ sresp.kind = "ok"

RECURSIVE SumOver(_, _)
SumOver(f, S) ==
    IF S = {} THEN 0
    ELSE LET x == CHOOSE y \in S : TRUE IN f[x] + SumOver(f, S \ {x})

\* C11: stats on an index nobody writes returns the exact record count and a map
\* that counts every record exactly once under its source label (the counts sum to
\* total_points); every page has at most 1000 records and the loop goes on exactly
\* while the scroll returns a continuation token.
C11_StatsCountsEveryRecordOnce ==
    /\ \A k \in 1..Len(pages) :
          /\ pages[k][1] <= StatsPageSize
          /\ k < Len(pages) => pages[k][2]
    /\ (spc = "scroll" /\ pages # <<>>) => pages[Len(pages)][2]
    /\ StatsOk =>
          /\ pages # <<>>
          /\ ~pages[Len(pages)][2]
          /\ sresp.total_points = Cardinality(DOMAIN index)
          /\ DOMAIN sresp.sources = {Label(index[i]) : i \in DOMAIN index}
          /\ \A l \in DOMAIN sresp.sources :
                sresp.sources[l] = Cardinality({i \in DOMAIN index : Label(index[i]) = l})
          /\ SumOver(sresp.sources, DOMAIN sresp.sources) = sresp.total_points

C11_Witness ==
    /\ StatsOk
    /\ Len(pages) = 3
    /\ sresp.total_points = 2 * StatsPageSize + 2
    /\ Str_unknown \in DOMAIN sresp.sources


RequiredKeys == {"text", "source", "page", "chunk_id", "created_at"}

\* C13: every record in the index has a payload whose keys are exactly text, source,
\* page, chunk_id, created_at, plus optionally hash.
C13_PayloadSchema ==
    \A i \in DOMAIN index :
        DOMAIN index[i].payload \in {RequiredKeys, RequiredKeys \cup {"hash"}}


(***************************************************************************)
(* upsert() of rag_service.py, with the fixed-window chunker chunk_text.   *)
(* A uuid4 drawn by upsert is <<"uuid4", -k>> for the k-th draw: fresh,    *)
(* and distinct from the ids of the points stored before.                  *)
(***************************************************************************)
\* texts = None
NoneList == <<NoneStr>>

\* s[a:b] for any integers a, b
PySliceAny(s, a, b) ==
    LET n  == Len(s)
        lo == IF a < 0 THEN Max(a + n, 0) ELSE Min(a, n)
        hi == IF b < 0 THEN Max(b + n, 0) ELSE Min(b, n)
    IN SubSeq(s, lo + 1, hi)

\* [t.strip() for t in req.texts if t and t.strip()]
RECURSIVE StrippedTexts(_)
StrippedTexts(ts) ==
    IF ts = <<>> THEN <<>>
    ELSE (IF StripStr(ts[1]) # <<>> THEN <<StripStr(ts[1])>> ELSE <<>>)
         \o StrippedTexts(Tail(ts))

\* req.texts and len(req.texts) > 0
HasTexts(r) == r.texts # NoneList /\ r.texts # <<>>

\* req.text or ""
TextOrEmpty(r) == IF r.text = NoneStr THEN <<>> ELSE r.text

\* faulty variant: enumerate(...) without start=1
ApiPoints_ZeroBased(cs, vecs, source, now, k) ==
    [i \in 1..Len(cs) |->
        [id |-> <<"uuid4", 0 - (k + i)>>, vector |-> vecs[i],
         payload |-> [text |-> cs[i], source |-> source, page |-> <<>>,
                      chunk_id |-> i - 1, created_at |-> now]]]

\* the points upsert builds: for idx, (txt, vec) in enumerate(zip(chunks, vectors), start=1)
ApiPoints(cs, vecs, source, now, k) ==
    [i \in 1..Len(cs) |->
        [id |-> <<"uuid4", 0 - (k + i)>>, vector |-> vecs[i],
         payload |-> [text |-> cs[i], source |-> source, page |-> <<>>,
                      chunk_id |-> i, created_at |-> now]]]

\* raise HTTPException(status_code=500, detail=f"Error en upsert(): {e}")
UpsertError(e) == [kind |-> "error", status |-> 500, detail |-> <<"Error en upsert()", e>>]

UpsertOkResponse(n) ==
    [kind |-> "ok", status |-> "ok", upserted |-> n, source |-> ureq.source]

UpsertFrame == UNCHANGED <<packVars, askVars, statsVars, healthVars, queryVars, guessVars, modelVars, auxVars, runs, lastDocs, beforeRun, dreq, dpc,
                           deleted_estimate, dresp, atScroll, interfered, ureq, atUStart>>

\* chunks = [t.strip() for t in req.texts if t and t.strip()]
UpsertFromTexts ==
    /\ upc = "start"
    /\ HasTexts(ureq)
    /\ uchunks' = StrippedTexts(ureq.texts)
    /\ upc' = "chunked"
    /\ UNCHANGED <<index, ck_text, ck_start, uvectors, uresp, drawn, written, calls>>
    /\ UpsertFrame

\* chunk_text: text is short, return [text] if text else []
ChunkTextShort ==
    /\ upc = "start"
    /\ ~HasTexts(ureq)
    /\ LET text == StripStr(TextOrEmpty(ureq))
       IN /\ Len(text) <= ureq.max_chars
          /\ ck_text' = text
          /\ uchunks' = IF text # <<>> THEN <<text>> ELSE <<>>
    /\ upc' = "chunked"
    /\ UNCHANGED <<index, ck_start, uvectors, uresp, drawn, written, calls>>
    /\ UpsertFrame

\* chunk_text: chunks, start = [], 0
ChunkTextLong ==
    /\ upc = "start"
    /\ ~HasTexts(ureq)
    /\ LET text == StripStr(TextOrEmpty(ureq))
       IN /\ Len(text) > ureq.max_chars
          /\ ck_text' = text
    /\ uchunks' = <<>>
    /\ ck_start' = 0
    /\ upc' = "loop"
    /\ UNCHANGED <<index, uvectors, uresp, drawn, written, calls>>
    /\ UpsertFrame

\* faulty variant: the next window starts where the previous one ended
ChunkTextTurn_NoOverlap ==
    /\ upc = "loop"
    /\ ck_start < Len(ck_text)
    /\ Len(uchunks) < MaxTurns
    /\ LET end == Min(Len(ck_text), ck_start + ureq.max_chars)
       IN /\ uchunks' = Append(uchunks, PySliceAny(ck_text, ck_start, end))
          /\ IF end = Len(ck_text)
             THEN upc' = "chunked" /\ UNCHANGED ck_start
             ELSE upc' = "loop" /\ ck_start' = end
    /\ UNCHANGED <<index, ck_text, uvectors, uresp, drawn, written, calls>>
    /\ UpsertFrame

\* chunk_text: one turn of the while loop
ChunkTextTurn ==
    /\ upc = "loop"
    /\ ck_start < Len(ck_text)
    /\ Len(uchunks) < MaxTurns
    /\ LET end == Min(Len(ck_text), ck_start + ureq.max_chars)
       IN /\ uchunks' = Append(uchunks, PySliceAny(ck_text, ck_start, end))
          /\ IF end = Len(ck_text)
             THEN upc' = "chunked" /\ UNCHANGED ck_start
             ELSE upc' = "loop" /\ ck_start' = Max(0, end - ureq.overlap)
    /\ UNCHANGED <<index, ck_text, uvectors, uresp, drawn, written, calls>>
    /\ UpsertFrame

\* chunk_text: the while condition is false
ChunkTextExit ==
    /\ upc = "loop"
    /\ ck_start >= Len(ck_text)
    /\ upc' = "chunked"
    /\ UNCHANGED <<index, uchunks, ck_text, ck_start, uvectors, uresp, drawn, written, calls>>
    /\ UpsertFrame

\* faulty variant: no early return, the empty list goes to the encoder
UpsertEmpty_NoEarlyReturn ==
    /\ upc = "chunked"
    /\ uchunks = <<>>
    /\ uvectors' = <<>>
    /\ Called("upsert", "embed_passages", TRUE, Prefix("passage"))
    /\ upc' = "write"
    /\ UNCHANGED <<index, uchunks, ck_text, ck_start, uresp, drawn, written>>
    /\ UpsertFrame

\* if not chunks: return {"status": "ok", "upserted": 0, ...}
UpsertEmpty ==
    /\ upc = "chunked"
    /\ uchunks = <<>>
    /\ uresp' = UpsertOkResponse(0)
    /\ upc' = "done"
    /\ UNCHANGED <<index, uchunks, ck_text, ck_start, uvectors, drawn, written, calls>>
    /\ UpsertFrame

\* vectors = embed_passages(chunks)
UpsertEmbed ==
    /\ upc = "chunked"
    /\ uchunks # <<>>
    /\ uvectors' = embed_passages(uchunks)
    /\ Called("upsert", "embed_passages", TRUE, Prefix("passage"))
    /\ upc' = "write"
    /\ UNCHANGED <<index, uchunks, ck_text, ck_start, uresp, drawn, written>>
    /\ UpsertFrame

UpsertEmbedFails ==
    /\ upc = "chunked"
    /\ uchunks # <<>>
    /\ Called("upsert", "embed_passages", FALSE, Prefix("passage"))
    /\ uresp' = UpsertError("embed_passages")
    /\ upc' = "done"
    /\ UNCHANGED <<index, uchunks, ck_text, ck_start, uvectors, drawn, written>>
    /\ UpsertFrame

\* now = int(time.time()); points; client.upsert(points); return
UpsertWrite ==
    /\ upc = "write"
    /\ \E now \in {1, 2} :
          LET points == ApiPoints(uchunks, uvectors, ureq.source, now, drawn)
          IN /\ index' = UpsertPoints(index, points)
             /\ written' = Append(written, points)
    /\ drawn' = drawn + Len(uchunks)
    /\ Called("upsert", "upsert", TRUE, "")
    /\ uresp' = UpsertOkResponse(Len(uchunks))
    /\ upc' = "done"
    /\ UNCHANGED <<uchunks, ck_text, ck_start, uvectors>>
    /\ UpsertFrame

\* client.upsert raises: nothing is written
UpsertWriteFails ==
    /\ upc = "write"
    /\ drawn' = drawn + Len(uchunks)
    /\ Called("upsert", "upsert", FALSE, "")
    /\ uresp' = UpsertError("upsert")
    /\ upc' = "done"
    /\ UNCHANGED <<index, uchunks, ck_text, ck_start, uvectors, written>>
    /\ UpsertFrame

UpsertNext ==
    \/ UpsertFromTexts
    \/ ChunkTextShort
    \/ ChunkTextLong
    \/ ChunkTextTurn
    \/ ChunkTextExit
    \/ UpsertEmpty
    \/ UpsertEmbed
    \/ UpsertEmbedFails
    \/ UpsertWrite
    \/ UpsertWriteFails

\* the values an UpsertRequest carries: texts and text may be absent, max_chars and
\* overlap are any integers
UpsertTexts ==
    {NoneList, <<>>, << <<" ">> >>, << <<>>, <<" ", " ">> >>, << <<"a">> >>,
     << <<" ", "a">>, <<" ">>, <<"b", " ">> >>}

UpsertLongTexts ==
    {NoneStr, <<>>, <<" ">>, <<"a", "b">>, <<" ", "a", "b", "c", " ">>,
     <<"a", " ", "c", "d">>}

UpsertRequests ==
    [texts : UpsertTexts, text : UpsertLongTexts, source : {<<"x">>},
     max_chars : (0 - 1)..MaxWindow, overlap : (0 - 1)..MaxWindow]

UpsertInit ==
    /\ PackIdle_Locals
    /\ AskIdle_Locals
    /\ StatsIdle
    /\ HealthIdle
    /\ QueryIdle
    /\ GuessIdle
    /\ ModelIdle
    /\ AuxIdle
    /\ \E nx \in 0..1, nz \in 0..1 : index = StoredIndex(nx, 0, nz)
    /\ runs = 0
    /\ lastDocs = <<>>
    /\ beforeRun = <<>>
    /\ dreq = Unset
    /\ dpc = "done"
    /\ deleted_estimate = 0
    /\ dresp = Unset
    /\ atScroll = <<>>
    /\ interfered = FALSE
    /\ ureq \in UpsertRequests
    /\ upc = "start"
    /\ uchunks = <<>>
    /\ ck_text = <<>>
    /\ ck_start = 0
    /\ uvectors = <<>>
    /\ uresp = Unset
    /\ drawn = 0
    /\ written = <<>>
    /\ atUStart = index
    /\ calls = NoCalls

SpecUpsert == UpsertInit /\ [][UpsertNext]_vars

AllBlank(ts) == \A i \in 1..Len(ts) : StripStr(ts[i]) = <<>>

\* the input yields no chunk: texts absent or all blank, and text absent or blank
NoChunkInput ==
    /\ ureq.texts = NoneList \/ AllBlank(ureq.texts)
    /\ ureq.text = NoneStr \/ StripStr(ureq.text) = <<>>

\* C12: upsert with input that yields no chunk returns success with count 0 and no
\* error; neither the embedding gateway nor the index upsert is called and the
\* index is unchanged.
C12_EmptyUpsertIsSuccess ==
    NoChunkInput =>
        /\ upc \in {"start", "loop", "chunked", "done"}
        /\ upc = "loop" => (ck_text = <<>> /\ ck_start = 0)
        /\ calls["upsert"] = <<>>
        /\ written = <<>>
        /\ index = atUStart
        /\ upc = "done" => (uresp.kind = "ok" /\ uresp.upserted = 0)

C12_Witness ==
    /\ NoChunkInput
    /\ upc = "done"
    /\ ureq.texts = << <<>>, <<" ", " ">> >>
    /\ ureq.text = <<" ">>
    /\ uresp.upserted = 0

UpsertOk == upc = "done" /\ uresp.kind = "ok"

\* C20: an upsert that yields n >= 1 chunks writes exactly n records in a single
\* index upsert, the i-th chunk gets chunk_id = i (from 1), every payload carries
\* the request's source, a null page and one common creation timestamp, and the
\* returned count is n.
C20_UpsertWritesNRecords ==
    (UpsertOk /\ uchunks # <<>>) =>
        LET n == Len(uchunks)
        IN /\ HasTexts(ureq) => uchunks = StrippedTexts(ureq.texts)
           /\ Len(written) = 1
           /\ Len(written[1]) = n
           /\ \A i \in 1..n :
                 LET pl == written[1][i].payload
                 IN /\ DOMAIN pl = {"text", "source", "page", "chunk_id", "created_at"}
                    /\ pl.text = uchunks[i]
                    /\ pl.chunk_id = i
                    /\ pl.source = ureq.source
                    /\ pl.page = <<>>
                    /\ pl.created_at = written[1][1].payload.created_at
                    /\ written[1][i].id \in DOMAIN index
                    /\ index[written[1][i].id].payload = pl
           /\ Cardinality(DOMAIN index) = Cardinality(DOMAIN atUStart) + n
           /\ \A i \in DOMAIN atUStart : i \in DOMAIN index /\ index[i] = atUStart[i]
           /\ uresp.upserted = n

C20_Witness ==
    /\ UpsertOk
    /\ Len(uchunks) >= 2
    /\ ~HasTexts(ureq)
    /\ uresp.upserted = Len(uchunks)
    /\ Cardinality(DOMAIN index) = Cardinality(DOMAIN atUStart) + Len(uchunks)


(***************************************************************************)
(* health() of rag_service.py and the /health handler of api.py.  The      *)
(* module is loaded, so GEMINI_API_KEY is a non-empty string (the import   *)
(* raises without it); whether the key is valid and whether the embedding  *)
(* model can be loaded is part of the environment.                         *)
(***************************************************************************)
Dependencies ==
    [qdrant : {"up", "no_collection", "down"}, key_valid : BOOLEAN, model_ok : BOOLEAN]

\* every required dependency is usable
AllUsable(d) == d.qdrant = "up" /\ d.key_valid /\ d.model_ok

HealthFrame == UNCHANGED <<packVars, askVars, indexVars, statsVars, upsertVars, queryVars,
                           guessVars, modelVars, auxVars, hsite>>

\* ok_env = GEMINI_API_KEY is not None
HealthEnv ==
    /\ hpc = "env"
    /\ hsite = "rag_service"
    /\ ok_env' = TRUE
    /\ hpc' = "probe"
    /\ UNCHANGED <<deps, ok_qdrant, hresp, atProbe, calls>>
    /\ HealthFrame

\* try: get_collection(COLLECTION); ok_qdrant = True / except: ok_qdrant = False; return
HealthProbe ==
    /\ hpc = "probe"
    /\ hsite = "rag_service"
    /\ ok_qdrant' = (deps.qdrant = "up")
    /\ atProbe' = deps
    /\ Called("health", "get_collection", deps.qdrant = "up", "")
    /\ hresp' = [kind |-> "ok",
                 status |-> IF ok_env /\ ok_qdrant' THEN "ok" ELSE "degraded",
                 gemini_key |-> ok_env, qdrant |-> ok_qdrant']
    /\ hpc' = "done"
    /\ UNCHANGED <<deps, ok_env>>
    /\ HealthFrame

\* api.py: _ = client.get_collection(COLLECTION); return {"qdrant": "green", ...}
ApiHealthOk ==
    /\ hpc = "env"
    /\ hsite = "api"
    /\ deps.qdrant = "up"
    /\ atProbe' = deps
    /\ Called("health", "get_collection", TRUE, "")
    /\ hresp' = [kind |-> "ok", status |-> "<absent>", qdrant |-> "green"]
    /\ hpc' = "done"
    /\ UNCHANGED <<deps, ok_env, ok_qdrant>>
    /\ HealthFrame

\* api.py: get_collection raises and nothing catches it
ApiHealthRaises ==
    /\ hpc = "env"
    /\ hsite = "api"
    /\ deps.qdrant # "up"
    /\ atProbe' = deps
    /\ Called("health", "get_collection", FALSE, "")
    /\ hresp' = [kind |-> "error", status |-> 500, qdrant |-> "<absent>"]
    /\ hpc' = "done"
    /\ UNCHANGED <<deps, ok_env, ok_qdrant>>
    /\ HealthFrame

\* a dependency fails or recovers while the request runs
DepsChange ==
    /\ hpc # "done"
    /\ deps' \in Dependencies \ {deps}
    /\ UNCHANGED <<hpc, ok_env, ok_qdrant, hresp, atProbe, calls>>
    /\ HealthFrame

HealthNext ==
    \/ HealthEnv
    \/ HealthProbe
    \/ ApiHealthOk
    \/ ApiHealthRaises
    \/ DepsChange

HealthInit ==
    /\ PackIdle_Locals
    /\ AskIdle_Locals
    /\ IndexIdle
    /\ StatsIdle
    /\ UpsertIdle
    /\ QueryIdle
    /\ GuessIdle
    /\ ModelIdle
    /\ AuxIdle
    /\ deps \in Dependencies
    /\ hsite \in {"rag_service", "api"}
    /\ hpc = "env"
    /\ ok_env = FALSE
    /\ ok_qdrant = FALSE
    /\ hresp = Unset
    /\ atProbe = deps
    /\ calls = NoCalls

SpecHealth == HealthInit /\ [][HealthNext]_vars

\* C14: health never raises; it returns "degraded" whenever a required dependency
\* (index and collection, generation credentials, embedding model) is unreachable
\* or misconfigured, and "ok" only when all of them are usable.
C14_HealthReflectsDependencies ==
    hpc = "done" =>
        /\ hresp.kind = "ok"
        /\ hresp.status \in {"ok", "degraded"}
        /\ hresp.status = "ok" <=> AllUsable(atProbe)


(***************************************************************************)
(* The /query handler of informe_sector_audiovisual_2025/api.py: a         *)
(* retrieval path of its own, without re-ranking.                          *)
(***************************************************************************)
QueryFrame == UNCHANGED <<packVars, askVars, indexVars, statsVars, upsertVars, healthVars,
                          guessVars, modelVars, auxVars, qreq>>

\* vec = embed([q])[0]
QueryEmbed ==
    /\ qpc = "embed"
    /\ vec' = embed(<<qreq.q>>)[1]
    /\ Called("query", "embed", TRUE, Prefix("passage"))
    /\ qpc' = "search"
    /\ UNCHANGED qout
    /\ QueryFrame

QueryEmbedFails ==
    /\ qpc = "embed"
    /\ Called("query", "embed", FALSE, Prefix("passage"))
    /\ qout' = [kind |-> "error", status |-> 500, out |-> <<>>]
    /\ qpc' = "done"
    /\ UNCHANGED vec
    /\ QueryFrame

\* res = client.query_points(query=vec, limit=top_k, query_filter=Filter(should=[])).points
\* and the metadata of every result
QuerySearch ==
    /\ qpc = "search"
    /\ LET res == QueryPoints(qreq.top_k, NoFilter)
       IN qout' = [kind |-> "ok", status |-> 200,
                   out |-> [i \in 1..Len(res) |->
                              [score |-> res[i].score, chunk_id |-> res[i].chunk_id,
                               source |-> res[i].source]]]
    /\ Called("query", "query_points", TRUE, "")
    /\ qpc' = "done"
    /\ UNCHANGED vec
    /\ QueryFrame

QuerySearchFails ==
    /\ qpc = "search"
    /\ Called("query", "query_points", FALSE, "")
    /\ qout' = [kind |-> "error", status |-> 500, out |-> <<>>]
    /\ qpc' = "done"
    /\ UNCHANGED vec
    /\ QueryFrame

QueryNext ==
    \/ QueryEmbed
    \/ QueryEmbedFails
    \/ QuerySearch
    \/ QuerySearchFails

\* q: str (min_length=1), top_k: int (ge=1, le=10)
QueryInit ==
    /\ PackIdle_Locals
    /\ IndexIdle
    /\ StatsIdle
    /\ UpsertIdle
    /\ HealthIdle
    /\ GuessIdle
    /\ ModelIdle
    /\ AuxIdle
    /\ collection \in Collections
    /\ req = [top_k |-> 0]
    /\ apc = "done"
    /\ qvec = <<0, 0>>
    /\ qfilter = <<>>
    /\ initial_k = 0
    /\ pts = <<>>
    /\ top = <<>>
    /\ resp = <<>>
    /\ genCalls = 0
    /\ prev = NoPrev
    /\ askRun = 0
    /\ qreq \in [q : {<<"a">>, <<"b", " ", "a">>}, top_k : 1..Min(MaxTopK, 10)]
    /\ qpc = "embed"
    /\ vec = <<>>
    /\ qout = Unset
    /\ calls = NoCalls

SpecQuery == QueryInit /\ [][QueryNext]_vars

\* the encoder calls that embed a question, and those that embed chunks
QuestionCalls == {<<"ask", "embed_query">>, <<"query", "embed">>}

ChunkCalls == {<<"upsert", "embed_passages">>, <<"upsert_chunks", "embed">>}

\* C15: every question used to query the index is embedded in query mode and every
\* chunk written to the index in passage mode; with a prefix-using model the modes
\* prepend "query: " and "passage: ", so no retrieval path embeds its question
\* with the passage prefix.
C15_QuestionsInQueryMode ==
    /\ Prefix("query") = "query: "
    /\ Prefix("passage") = "passage: "
    /\ \A op \in Operations : \A i \in 1..Len(calls[op]) :
          LET e == calls[op][i]
          IN /\ <<op, e.call>> \in QuestionCalls => e.mode = "query: "
             /\ <<op, e.call>> \in ChunkCalls => e.mode = "passage: "


(***************************************************************************)
(* Page attribution: _norm and _guess_page of scripts/metadata_enricher.py *)
(***************************************************************************)
MinSnippet == 40

\* for k in (200, 160, 120, 80)
SnippetLengths == <<200, 160, 120, 80>>

\* str.lower() on the characters of these texts
Lower(c) == IF c = "C" THEN "c" ELSE IF c = "D" THEN "d" ELSE c

\* _norm(s): lower case, every run of whitespace one blank, trimmed
\* (a blank is kept when it follows a non-blank and a non-blank comes after it)
Norm(s) ==
    LET low == [i \in 1..Len(s) |-> <<i, Lower(s[i])>>]
        Keep(e) == \/ e[2] # " "
                   \/ /\ e[1] > 1
                      /\ s[e[1] - 1] # " "
                      /\ \E j \in (e[1] + 1)..Len(s) : s[j] # " "
        kept == SelectSeq(low, Keep)
    IN [k \in 1..Len(kept) |-> kept[k][2]]

\* for p in pages: if snippet and snippet in p["norm"]: return p["num"]
RECURSIVE FirstPage(_, _)
FirstPage(snippet, ps) ==
    IF ps = <<>> THEN NoPage
    ELSE IF snippet # <<>> /\ IsSubstring(snippet, ps[1].norm)
         THEN [found |-> TRUE, num |-> ps[1].num]
         ELSE FirstPage(snippet, Tail(ps))

RECURSIVE TryLengths(_, _, _)
TryLengths(norm, ks, ps) ==
    IF ks = <<>> THEN NoPage
    ELSE LET snippet == PyPrefix(norm, ks[1])
         IN IF Len(snippet) < MinSnippet THEN NoPage
            ELSE LET r == FirstPage(snippet, ps)
                 IN IF r.found THEN r ELSE TryLengths(norm, Tail(ks), ps)

\* faulty variant: the pages are the outer loop, the first page holding any
\* tried prefix wins
RECURSIVE PagesFirst(_, _)
PagesFirst(norm, ps) ==
    IF ps = <<>> THEN NoPage
    ELSE IF \E j \in 1..Len(SnippetLengths) :
               /\ Len(PyPrefix(norm, SnippetLengths[j])) >= MinSnippet
               /\ IsSubstring(PyPrefix(norm, SnippetLengths[j]), ps[1].norm)
         THEN [found |-> TRUE, num |-> ps[1].num]
         ELSE PagesFirst(norm, Tail(ps))

guess_page_PagesFirst(chunk, ps) == PagesFirst(Norm(chunk), ps)

\* _guess_page(chunk_text, pages)
guess_page(chunk, ps) == TryLengths(Norm(chunk), SnippetLengths, ps)

Rep(c, n) == [i \in 1..n |-> c]

\* chunk texts of the lengths around the snippet lengths, plain, in upper case, or
\* with surrounding and doubled blanks
GuessChunks ==
    UNION {{Rep("c", n), Rep("C", n), <<" ", " ">> \o Rep("c", n) \o <<" ">>,
            Rep("c", n - 1) \o <<" ", " ", "d">>} :
           n \in {1, 38, 39, 40, 79, 81, 120, 121, 160, 200, 201}}

PageTexts ==
    {<<>>, Rep("d", 50), Rep("C", 100), Rep("c", 130), Rep("c", 200),
     Rep("c", 120) \o <<" ", " ">> \o Rep("d", 3)}

\* _load_pages: {"num", "text", "norm"} per page, in document order
PageLists ==
    UNION {{[i \in 1..n |-> [num |-> i, norm |-> Norm(ts[i])]] :
              ts \in [1..n -> PageTexts]} : n \in 0..MaxPages}

GuessPage ==
    /\ gpc = "call"
    /\ gres' = guess_page(chunk_text_in, gpages)
    /\ gpc' = "done"
    /\ UNCHANGED <<packVars, askVars, indexVars, statsVars, upsertVars, healthVars, queryVars, modelVars, auxVars,
                   chunk_text_in, gpages, calls>>

GuessNext ==
    \/ GuessPage

GuessInit ==
    /\ PackIdle_Locals
    /\ ModelIdle
    /\ AuxIdle
    /\ AskIdle_Locals
    /\ IndexIdle
    /\ StatsIdle
    /\ UpsertIdle
    /\ HealthIdle
    /\ QueryIdle
    /\ chunk_text_in \in GuessChunks
    /\ gpages \in PageLists
    /\ gpc = "call"
    /\ gres = NoPage
    /\ calls = NoCalls

SpecGuess == GuessInit /\ [][GuessNext]_vars

\* the chunk's leading normalized prefix of length k
Tried(k) == PyPrefix(Norm(chunk_text_in), k)

\* the positions of the pages whose normalized text contains the prefix of length k
Holding(k) == {i \in 1..Len(gpages) : IsSubstring(Tried(k), gpages[i].norm)}

\* C16: _guess_page tries the prefixes of lengths 200, 160, 120, 80 in that order and
\* returns the number of the first page, in document order, that contains the first
\* (longest) prefix any page contains; it returns none when the normalized chunk is
\* shorter than 40 characters or no page contains a tried prefix, and a number it
\* returns is the number of one of the given pages.
C16_GuessPage ==
    gpc = "done" =>
        LET hit == {j \in 1..Len(SnippetLengths) : Holding(SnippetLengths[j]) # {}}
        IN /\ (Len(Norm(chunk_text_in)) < MinSnippet \/ hit = {}) => ~gres.found
           /\ (Len(Norm(chunk_text_in)) >= MinSnippet /\ hit # {}) =>
                 LET j == CHOOSE x \in hit : \A y \in hit : x <= y
                     H == Holding(SnippetLengths[j])
                     i == CHOOSE x \in H : \A y \in H : x <= y
                 IN gres.found /\ gres.num = gpages[i].num
           /\ gres.found => \E i \in 1..Len(gpages) : gres.num = gpages[i].num

C16_Witness ==
    /\ gpc = "done"
    /\ gres.found
    /\ gres.num = 2
    /\ Holding(200) = {2}
    /\ Holding(80) = {1, 2}


(***************************************************************************)
(* The same request asked again, on the same collection                    *)
(***************************************************************************)
\* the query of this run was answered
Fetched ==
    \E i \in 1..Len(calls["ask"]) :
        calls["ask"][i].call = "query_points" /\ calls["ask"][i].ok

\* the client sends the request a second time after the first has ended
AskAgain ==
    /\ apc = "done"
    /\ askRun < MaxAskRuns - 1
    /\ askRun' = askRun + 1
    /\ prev' = [done |-> TRUE, fetched |-> Fetched, ranked |-> genCalls > 0,
                ok |-> resp.kind = "ok", qvec |-> qvec,
                top |-> IF genCalls > 0 THEN top ELSE <<>>,
                sources |-> IF resp.kind = "ok" THEN resp.sources ELSE <<>>]
    /\ apc' = "embed"
    /\ qvec' = <<0, 0>>
    /\ qfilter' = NoFilter
    /\ initial_k' = 0
    /\ pts' = Unset
    /\ top' = Unset
    /\ resp' = Unset
    /\ genCalls' = 0
    /\ calls' = [calls EXCEPT !["ask"] = <<>>]
    /\ UNCHANGED <<packVars, indexVars, extVars, collection, req>>

AskTwiceNext ==
    \/ AskEmbed
    \/ AskEmbedFails
    \/ AskQuery
    \/ AskQueryFails
    \/ AskNoContext
    \/ AskRerank
    \/ AskGenerate
    \/ AskGenerateFails
    \/ AskAgain

\* collections whose points all carry the same index score
PlainCollections ==
    UNION {{[i \in 1..n |-> PointAt(i, vs[i], 1)] : vs \in [1..n -> PointVectors]} :
           n \in 0..MaxPoints}

AskTwiceInit ==
    /\ PackIdle_Locals
    /\ IndexIdle
    /\ ExtIdle
    /\ AskStart
    /\ collection \in PlainCollections
    /\ req \in [top_k : 1..MaxTopK, filter_text : FilterTexts, debug : {FALSE}]

SpecAskTwice == AskTwiceInit /\ [][AskTwiceNext]_vars

\* this run and the previous one got the same question vector from the gateway
SameQuestion == prev.done /\ apc # "embed" /\ prev.qvec = qvec

ModelFrame == UNCHANGED <<packVars, askVars, indexVars, statsVars, upsertVars, healthVars,
                          queryVars, guessVars, auxVars, calls>>

\* if _model is None: (true)
ModelCheckNone(t) ==
    /\ tpc[t] = "check"
    /\ _model = 0
    /\ tpc' = [tpc EXCEPT ![t] = "load"]
    /\ UNCHANGED <<_model, built, got, created, replaced>>
    /\ ModelFrame

\* if _model is None: (false)
ModelCheckSet(t) ==
    /\ tpc[t] = "check"
    /\ _model # 0
    /\ tpc' = [tpc EXCEPT ![t] = "return"]
    /\ UNCHANGED <<_model, built, got, created, replaced>>
    /\ ModelFrame

\* SentenceTransformer(DEFAULT_MODEL) returns a new instance
ModelLoad(t) ==
    /\ tpc[t] = "load"
    /\ created' = created + 1
    /\ built' = [built EXCEPT ![t] = created + 1]
    /\ tpc' = [tpc EXCEPT ![t] = "assign"]
    /\ UNCHANGED <<_model, got, replaced>>
    /\ ModelFrame

\* SentenceTransformer(DEFAULT_MODEL) raises: _model stays as it is
ModelLoadFails(t) ==
    /\ tpc[t] = "load"
    /\ tpc' = [tpc EXCEPT ![t] = "raised"]
    /\ UNCHANGED <<_model, built, got, created, replaced>>
    /\ ModelFrame

\* _model = <the new instance>
ModelAssign(t) ==
    /\ tpc[t] = "assign"
    /\ _model' = built[t]
    /\ replaced' = (replaced \/ _model # 0)
    /\ tpc' = [tpc EXCEPT ![t] = "return"]
    /\ UNCHANGED <<built, got, created>>
    /\ ModelFrame

\* return _model
ModelReturn(t) ==
    /\ tpc[t] = "return"
    /\ got' = [got EXCEPT ![t] = _model]
    /\ tpc' = [tpc EXCEPT ![t] = "done"]
    /\ UNCHANGED <<_model, built, created, replaced>>
    /\ ModelFrame

ModelNext ==
    \/ \E t \in Threads : ModelCheckNone(t)
    \/ \E t \in Threads : ModelCheckSet(t)
    \/ \E t \in Threads : ModelLoad(t)
    \/ \E t \in Threads : ModelLoadFails(t)
    \/ \E t \in Threads : ModelAssign(t)
    \/ \E t \in Threads : ModelReturn(t)

\* a fresh process; each worker thread either has a request that is about to embed
\* or has none
ModelInit ==
    /\ PackIdle_Locals
    /\ AskIdle_Locals
    /\ IndexIdle
    /\ StatsIdle
    /\ UpsertIdle
    /\ HealthIdle
    /\ QueryIdle
    /\ GuessIdle
    /\ AuxIdle
    /\ calls = NoCalls
    /\ _model = 0
    /\ tpc \in [Threads -> {"check", "done"}]
    /\ built = [t \in Threads |-> 0]
    /\ got = [t \in Threads |-> 0]
    /\ created = 0
    /\ replaced = FALSE

SpecModel == ModelInit /\ [][ModelNext]_vars

\* C18: however the concurrent requests interleave in get_model, at most one model
\* instance is created in the process, and once _model refers to an instance it is
\* never made to refer to another.
C18_ModelLoadedOnce ==
    /\ created <= 1
    /\ ~replaced


(***************************************************************************)
(* The four operations of the service, each with one request, side by side *)
(***************************************************************************)
OpsNext ==
    \/ AskNext
    \/ UpsertNext
    \/ StatsNext
    \/ DeleteScroll
    \/ DeleteScrollFails
    \/ DeleteDelete
    \/ DeleteDeleteFails

OpsUpsertRequests ==
    {r \in UpsertRequests :
        /\ r.overlap = 1
        /\ r.texts \in {NoneList, << <<" ", "a">>, <<" ">>, <<"b", " ">> >>}
        /\ r.text \in {NoneStr, <<"a", "b">>, <<"a", " ", "c", "d">>}
        /\ \/ r.max_chars = 2
           \/ r.max_chars = 0 - 1 /\ r.texts = NoneList /\ r.text = NoneStr}

OpsCollections ==
    {c \in PlainCollections : Len(c) \in {0, 2} /\ \A i \in 1..Len(c) : c[i].vector = <<1, 0>>}

\* every operation has a request on a small index
OpsInit_Small ==
    /\ AskStart
    /\ collection \in OpsCollections
    /\ req \in [top_k : {1}, filter_text : {NoneStr, <<"a">>}, debug : {FALSE}]
    /\ \E nx \in 0..1 : index = StoredIndex(nx, 0, 1)
    /\ dreq = [source |-> <<"x">>]
    /\ dpc = "scroll"
    /\ ureq \in OpsUpsertRequests
    /\ upc = "start"

\* stats alone on an index of more than one page
OpsInit_Large ==
    /\ AskIdle_Locals
    /\ index = StoredIndex(StatsPageSize, 0, 1)
    /\ dreq = Unset
    /\ dpc = "done"
    /\ ureq = Unset
    /\ upc = "done"

OpsInit ==
    /\ PackIdle_Locals
    /\ HealthIdle
    /\ QueryIdle
    /\ GuessIdle
    /\ ModelIdle
    /\ AuxIdle
    /\ calls = NoCalls
    /\ OpsInit_Small \/ OpsInit_Large
    /\ runs = 0
    /\ lastDocs = <<>>
    /\ beforeRun = <<>>
    /\ deleted_estimate = 0
    /\ dresp = Unset
    /\ atScroll = <<>>
    /\ interfered = FALSE
    /\ uchunks = <<>>
    /\ ck_text = <<>>
    /\ ck_start = 0
    /\ uvectors = <<>>
    /\ uresp = Unset
    /\ drawn = 0
    /\ written = <<>>
    /\ atUStart = index
    /\ spc = "count"
    /\ total = 0
    /\ by_source = <<>>
    /\ next_page = NoToken
    /\ sresp = Unset
    /\ pages = <<>>

SpecOps == OpsInit /\ [][OpsNext]_vars

ServiceOperations == {"ask", "upsert", "delete_by_source", "stats"}

\* the text that opens the detail of the HTTPException of each operation
ErrorOf(op) ==
    CASE op = "ask" -> ErrorResponse("")[("detail")][1]
      [] op = "upsert" -> UpsertError("")[("detail")][1]
      [] op = "delete_by_source" -> "Error en delete_by_source()"
      [] op = "stats" -> StatsError("")[("detail")][1]

OpEnded(op) ==
    CASE op = "ask" -> apc = "done"
      [] op = "upsert" -> upc = "done"
      [] op = "delete_by_source" -> dpc = "done"
      [] op = "stats" -> spc = "done"

OpResponse(op) ==
    CASE op = "ask" -> resp
      [] op = "upsert" -> uresp
      [] op = "delete_by_source" -> dresp
      [] op = "stats" -> sresp

\* a collaborator call of this operation failed
Failed(op) == \E i \in 1..Len(calls[op]) : ~calls[op][i].ok

\* C19: in ask, upsert, delete_by_source and stats a failed collaborator call is the
\* last call the operation makes (no retry, no later call), and the operation has
\* ended with an error response whose detail names the operation, never with a
\* success.
C19_FailureEndsOperation ==
    \A op \in ServiceOperations :
        /\ \A i \in 1..Len(calls[op]) : ~calls[op][i].ok => i = Len(calls[op])
        /\ Failed(op) =>
              /\ OpEnded(op)
              /\ OpResponse(op).kind = "error"
              /\ OpResponse(op).detail[1] = ErrorOf(op)
              /\ ErrorOf(op) \in {"Error en ask()", "Error en upsert()",
                                  "Error en delete_by_source()", "Error obteniendo stats()"}

\* every operation failed, each at its last collaborator call after the earlier
\* calls had succeeded
C19_Witness ==
    /\ \A op \in ServiceOperations : Failed(op) /\ Len(calls[op]) >= 2
    /\ Len(calls["ask"]) = 3
    /\ resp.kind = "error"
    /\ uresp.kind = "error"
    /\ dresp.kind = "error"
    /\ sresp.kind = "error"


(***************************************************************************)
(* chunking: paragraphs, headers and sentences                             *)
(***************************************************************************)
NL == "\n"

IsSpace(c) == c \in {" ", NL, "\t"}

IsDigit(c) == c \in {"0", "1", "2", "3", "4", "5", "6", "7", "8", "9"}

UpperLetters ==
    <<"A", "B", "C", "D", "E", "F", "G", "H", "I", "J", "K", "L", "M", "N", "O", "P", "Q",
      "R", "S", "T", "U", "V", "W", "X", "Y", "Z", "Á", "É", "Í", "Ó", "Ú", "Ü", "Ñ">>

LowerLetters ==
    <<"a", "b", "c", "d", "e", "f", "g", "h", "i", "j", "k", "l", "m", "n", "o", "p", "q",
      "r", "s", "t", "u", "v", "w", "x", "y", "z", "á", "é", "í", "ó", "ú", "ü", "ñ">>

\* the class [A-ZÁÉÍÓÚÜÑ]
IsUpper(c) == \E i \in 1..Len(UpperLetters) : UpperLetters[i] = c

\* str.lower() on one character
ToLower(c) ==
    IF IsUpper(c) THEN LowerLetters[CHOOSE i \in 1..Len(UpperLetters) : UpperLetters[i] = c]
    ELSE c

\* str.strip()
RECURSIVE PyStrip(_)
PyStrip(t) ==
    IF t = <<>> THEN t
    ELSE IF IsSpace(t[1]) THEN PyStrip(Tail(t))
    ELSE IF IsSpace(t[Len(t)]) THEN PyStrip(SubSeq(t, 1, Len(t) - 1))
    ELSE t

\* re.sub(r"\s+", " ", t): every run of whitespace becomes one blank
CollapseWs(t) ==
    LET tagged == [i \in 1..Len(t) |-> <<i, t[i]>>]
        Keep(e) == ~IsSpace(e[2]) \/ e[1] = 1 \/ ~IsSpace(t[e[1] - 1])
        kept == SelectSeq(tagged, Keep)
    IN [k \in 1..Len(kept) |-> IF IsSpace(kept[k][2]) THEN " " ELSE kept[k][2]]

\* the last position of the run of whitespace that starts at i
RECURSIVE WsRunEnd(_, _)
WsRunEnd(t, i) == IF i < Len(t) /\ IsSpace(t[i + 1]) THEN WsRunEnd(t, i + 1) ELSE i

\* the last line break in t[i..j]
LastNL(t, i, j) == CHOOSE k \in i..j : t[k] = NL /\ \A m \in (k + 1)..j : t[m] # NL

\* re.split(r"\n\s*\n", t): the pieces from position start on, scanning from i
RECURSIVE ReSplitBlankLines(_, _, _)
ReSplitBlankLines(t, i, start) ==
    IF i > Len(t) THEN <<SubSeq(t, start, Len(t))>>
    ELSE IF t[i] = NL /\ LastNL(t, i, WsRunEnd(t, i)) > i
         THEN LET k == LastNL(t, i, WsRunEnd(t, i))
              IN <<SubSeq(t, start, i - 1)>> \o ReSplitBlankLines(t, k + 1, k + 1)
         ELSE ReSplitBlankLines(t, i + 1, start)

NonEmpty(x) == x # <<>>

split_paragraphs(t) ==
    LET pieces == ReSplitBlankLines(t, 1, 1)
        paras == [i \in 1..Len(pieces) |-> CollapseWs(PyStrip(pieces[i]))]
    IN SelectSeq(paras, NonEmpty)

\* u is \d+\.\d+
NumGroup(u) ==
    \E d \in 2..(Len(u) - 1) :
        /\ u[d] = "."
        /\ \A k \in (1..Len(u)) \ {d} : IsDigit(u[k])

\* u is (\d+\.\d+)*
RECURSIVE NumGroups(_)
NumGroups(u) ==
    \/ u = <<>>
    \/ \E n \in 3..Len(u) : NumGroup(SubSeq(u, 1, n)) /\ NumGroups(SubSeq(u, n + 1, Len(u)))

\* the class [A-ZÁÉÍÓÚÜÑ0-9 ,.\-:%()]
InHdrClass(c) == IsUpper(c) \/ IsDigit(c) \/ c \in {" ", ",", ".", "-", ":", "%", "(", ")"}

\* HDR_RE.match(line): ^(\d+\.\d+)*\s*.+  or  [A-ZÁÉÍÓÚÜÑ0-9 ,.\-:%()]+$  at the start
HDR_RE_match(line) ==
    \/ \E i \in 0..Len(line) :
          /\ NumGroups(SubSeq(line, 1, i))
          /\ \E j \in i..(Len(line) - 1) :
                /\ \A k \in (i + 1)..j : IsSpace(line[k])
                /\ line[j + 1] # NL
    \/ \E n \in 1..Len(line) :
          /\ \A k \in 1..n : InHdrClass(line[k])
          /\ n = Len(line) \/ (n = Len(line) - 1 /\ line[Len(line)] = NL)

is_header(l) ==
    LET line == PyStrip(l)
    IN IF Len(line) <= 3 THEN FALSE
       ELSE IF (\A k \in 1..Len(line) : ToLower(line[k]) = line[k])
               /\ ~\E k \in 1..Len(line) : IsDigit(line[k])
            THEN FALSE
       ELSE HDR_RE_match(line)

\* SENT_RE matches t[i..WsRunEnd(t, i)]: after . ! or ?, before a capital or a digit
SentBreakAt(t, i) ==
    /\ i > 1
    /\ t[i - 1] \in {".", "!", "?"}
    /\ IsSpace(t[i])
    /\ WsRunEnd(t, i) < Len(t)
    /\ LET c == t[WsRunEnd(t, i) + 1] IN IsUpper(c) \/ IsDigit(c)

\* SENT_RE.split(t)
RECURSIVE SENT_RE_split(_, _, _)
SENT_RE_split(t, i, start) ==
    IF i > Len(t) THEN <<SubSeq(t, start, Len(t))>>
    ELSE IF SentBreakAt(t, i)
         THEN <<SubSeq(t, start, i - 1)>>
              \o SENT_RE_split(t, WsRunEnd(t, i) + 1, WsRunEnd(t, i) + 1)
         ELSE SENT_RE_split(t, i + 1, start)

\* the character U+2022
BULLET == "<U+2022>"

\* the for loop of _sentences over tmp[n..], out so far
RECURSIVE MergeBullets(_, _, _)
MergeBullets(tmp, n, out) ==
    IF n > Len(tmp) THEN out
    ELSE LET x == PyStrip(tmp[n])
         IN IF x = <<>> THEN MergeBullets(tmp, n + 1, out)
            ELSE IF x[1] \in {BULLET, "-"} /\ out # <<>>
                 THEN MergeBullets(tmp, n + 1,
                          [out EXCEPT ![Len(out)] = out[Len(out)] \o <<" ">> \o x])
                 ELSE MergeBullets(tmp, n + 1, Append(out, x))

sentences(paragraph) ==
    IF is_header(paragraph) THEN <<paragraph>>
    ELSE MergeBullets(SENT_RE_split(paragraph, 1, 1), 1, <<>>)

SegFrame == UNCHANGED <<packVars, askVars, indexVars, statsVars, upsertVars, healthVars,
                        queryVars, guessVars, modelVars, cosVars, full_text, calls>>

\* paragraphs = _split_paragraphs(full_text); sents = []
SegSplit ==
    /\ segpc = "split"
    /\ paragraphs' = split_paragraphs(full_text)
    /\ para_i' = 0
    /\ seg_sents' = <<>>
    /\ segpc' = "sentences"
    /\ SegFrame

\* for p in paragraphs: sents.extend(_sentences(p))
SegSentences ==
    /\ segpc = "sentences"
    /\ para_i < Len(paragraphs)
    /\ para_i' = para_i + 1
    /\ LET got_s == sentences(paragraphs[para_i + 1])
       IN seg_sents' = seg_sents \o [k \in 1..Len(got_s) |->
                                        [text |-> got_s[k], para |-> para_i + 1]]
    /\ UNCHANGED <<paragraphs, segpc>>
    /\ SegFrame

\* the loop is over
SegEnd ==
    /\ segpc = "sentences"
    /\ para_i = Len(paragraphs)
    /\ segpc' = "done"
    /\ UNCHANGED <<paragraphs, para_i, seg_sents>>
    /\ SegFrame

SegNext ==
    \/ SegSplit
    \/ SegSentences
    \/ SegEnd

LINE_HDRNUM == <<"1", ".", "2", " ", "A", "B">>

LINE_HDRCAPS == <<"A", "B", "C", "D">>

LINE_PROSE == <<"A", "b", " ", "c", ".", " ", "D", "e", " ", "f", ".">>

LINE_LOWER == <<"a", "b", " ", "c", ".", " ", "d", "e", " ", "f", ".">>

LINE_LOWERNUM == <<"a", "b", ".", " ", "2", " ", "c", "d">>

LINE_BULLET == <<"A", "b", ".", " ", "-", " ", "c", "d">>

LINE_SHORT == <<"A", "b", ".">>

LINE_QUESTION == <<"a", "b", "?", " ", "C", "d", "!", " ", "e", "f">>

\* lines of the interim text
SegLines ==
    {LINE_HDRNUM, LINE_HDRCAPS, LINE_PROSE, LINE_LOWER, LINE_LOWERNUM, LINE_BULLET, LINE_SHORT,
     LINE_QUESTION}

SegSeparators == {<<NL, NL>>, <<NL>>, <<NL, " ", NL>>}

RECURSIVE JoinLines(_, _)
JoinLines(ls, seps) ==
    IF Len(ls) = 1 THEN ls[1]
    ELSE ls[1] \o seps[1] \o JoinLines(Tail(ls), Tail(seps))

SegTexts ==
    UNION {{JoinLines(ls, seps) : <<ls, seps>> \in [1..n -> SegLines] \X [1..(n - 1) -> SegSeparators]} :
           n \in 1..MaxLines}

SegInit ==
    /\ PackIdle_Locals
    /\ AskIdle_Locals
    /\ IndexIdle
    /\ StatsIdle
    /\ UpsertIdle
    /\ HealthIdle
    /\ QueryIdle
    /\ GuessIdle
    /\ ModelIdle
    /\ CosIdle
    /\ calls = NoCalls
    /\ full_text \in SegTexts
    /\ paragraphs = <<>>
    /\ para_i = 0
    /\ seg_sents = <<>>
    /\ segpc = "split"

SpecSeg == SegInit /\ [][SegNext]_vars

\* what _sentences gave for paragraph i
UnitsOf(i) ==
    LET mine == SelectSeq(seg_sents, LAMBDA u : u.para = i)
    IN [k \in 1..Len(mine) |-> mine[k].text]

\* a heading pattern: a numeric x.y prefix, or a line of capitals, digits and punctuation
HeadingPattern(line) ==
    \/ \E n \in 3..Len(line) : NumGroup(SubSeq(line, 1, n))
    \/ \A k \in 1..Len(line) : InHdrClass(line[k])

\* the header predicate as stated: longer than 3, a digit or not all lower case, and
\* a heading pattern
HeaderAsStated(l) ==
    LET line == PyStrip(l)
    IN /\ Len(line) > 3
       /\ \/ \E k \in 1..Len(line) : IsDigit(line[k])
          \/ \E k \in 1..Len(line) : ToLower(line[k]) # line[k]
       /\ HeadingPattern(line)

\* C21: a paragraph is treated as a header only if it is longer than 3 characters,
\* has a digit or is not all lower case, and matches a heading pattern; a paragraph
\* that is not such a header is split into its sentences at . ! ? followed by
\* whitespace and a capital or a digit.
C21_HeaderOnlyIfPattern ==
    \A i \in 1..para_i :
        ~HeaderAsStated(paragraphs[i]) =>
            UnitsOf(i) = MergeBullets(SENT_RE_split(paragraphs[i], 1, 1), 1, <<>>)

\* the lines of the text: str.split("\n"), each trimmed
RECURSIVE SplitLines(_, _, _)
SplitLines(t, i, start) ==
    IF i > Len(t) THEN <<PyStrip(SubSeq(t, start, Len(t)))>>
    ELSE IF t[i] = NL
         THEN <<PyStrip(SubSeq(t, start, i - 1))>> \o SplitLines(t, i + 1, i + 1)
         ELSE SplitLines(t, i + 1, start)

HeaderLines ==
    LET ls == SplitLines(full_text, 1, 1)
    IN {ls[k] : k \in {m \in 1..Len(ls) : HeaderAsStated(ls[m])}}

\* C22: when segmentation has ended, every header line of the text is a sentence
\* unit by itself, whether a blank line or a single line break separates it from
\* its neighbours: no unit holds a header line together with other text, and no
\* header line is split over several units.
C22_HeaderIsOwnUnit ==
    segpc = "done" =>
        \A h \in HeaderLines : \E k \in 1..Len(seg_sents) : seg_sents[k].text = h


(***************************************************************************)
(* The hard split of _pack_sentences, step by step                         *)
(***************************************************************************)
\* this step is the hard split of sentence si
HardSplitStep ==
    /\ Overflow
    /\ Len(sents[si]) > chunk_size
    /\ chunk_size - overlap # 0
    /\ si' = si + 1

\* the chunks the step appended after the flush
NewPieces ==
    LET before == Len(flush(PackState, TRUE).chunks)
    IN [k \in 1..(Len(chunks') - before) |-> chunks'[before + k]]

CellSet(t) == {t[p] : p \in 1..Len(t)}

\* C23: the hard split of a sentence longer than chunk_size emits pieces with
\* consecutive ids; consecutive pieces share exactly `overlap` characters, the
\* pieces cover the sentence, no piece lies wholly inside the one before it, and
\* the buffer is left holding exactly the last `overlap` characters of the
\* sentence (nothing when overlap = 0).
C23_HardSplitPieces ==
    [][(ValidConfig /\ HardSplitStep) =>
          LET ps == NewPieces
          IN /\ ps # <<>>
             /\ \A k \in 1..Len(ps) : ps[k].id = ps[1].id + k - 1
             /\ \A k \in 1..(Len(ps) - 1) :
                   /\ Cardinality(CellSet(ps[k].text) \cap CellSet(ps[k + 1].text)) = overlap
                   /\ ~(CellSet(ps[k + 1].text) \subseteq CellSet(ps[k].text))
             /\ UNION {CellSet(ps[k].text) : k \in 1..Len(ps)} = CellSet(CurSent)
             /\ buf' = IF overlap = 0 THEN <<>>
                       ELSE <<SubSeq(CurSent, Len(CurSent) - overlap + 1, Len(CurSent))>>
      ]_vars


(***************************************************************************)
(* Termination of chunk_text                                               *)
(*                                                                         *)
(* The loop ends only by a window reaching the end of the text or by start *)
(* reaching len(text).  start' = max(0, min(n, start + max_chars) -        *)
(* overlap) does not decrease when start grows, so a turn that does not    *)
(* move start forward is followed by turns that never move it forward      *)
(* either, with windows that end where they ended before or earlier: the   *)
(* loop then runs until the list of chunks exhausts the memory.            *)
(***************************************************************************)
\* C24: chunk_text terminates for every max_chars and overlap an UpsertRequest can
\* carry: every turn of its loop that does not end the loop moves start forward.
C24_ChunkTextAdvances ==
    [][(upc = "loop" /\ upc' = "loop") => ck_start' > ck_start]_vars


(***************************************************************************)
(* The filter of ask and the filter its debug output reports               *)
(***************************************************************************)
\* C25: ask applies a text filter to the index query exactly when the normalized
\* filter text is not empty, and in debug mode the response reports the filter
\* that was applied: it reports none exactly when no filter was built.
C25_DebugReportsAppliedFilter ==
    /\ apc \in {"fetched", "generate"} =>
          (qfilter # NoFilter <=> normalize_text(req.filter_text) # <<>>)
    /\ (apc = "done" /\ resp.kind = "ok" /\ req.debug) =>
          /\ qfilter # NoFilter <=> normalize_text(req.filter_text) # <<>>
          /\ resp.debug.filter_text_used = NoneStr <=> qfilter = NoFilter


(***************************************************************************)
(* Evidence of ask when a selected candidate has no payload                *)
(***************************************************************************)
\* the point as the index returns it when it was stored without payload
Bare(p) == [p EXCEPT !.has_payload = FALSE]

\* collections of same-score points, any of which may lack a payload
EvidenceCollections ==
    UNION {{[i \in 1..Len(c) |-> IF i \in bare THEN Bare(c[i]) ELSE c[i]] :
              bare \in SUBSET (1..Len(c))} : c \in PlainCollections}

AskEvidenceInit ==
    /\ PackIdle_Locals
    /\ IndexIdle
    /\ ExtIdle
    /\ AskStart
    /\ collection \in EvidenceCollections
    /\ req \in [top_k : 1..MaxTopK, filter_text : {NoneStr, <<"a">>}, debug : BOOLEAN]

SpecAskEvidence == AskEvidenceInit /\ [][AskNext]_vars

RECURSIVE Pow2(_)
Pow2(n) == IF n = 0 THEN 1 ELSE 2 * Pow2(n - 1)

\* N / M * 2^s as a fraction of integers
Scaled(N, M, s) == IF s >= 0 THEN <<N * Pow2(s), M>> ELSE <<N, M * Pow2(0 - s)>>

\* the s for which 2^(MantissaBits - 1) <= N / M * 2^s < 2^MantissaBits
RECURSIVE Shift(_, _, _)
Shift(N, M, s) ==
    LET nd == Scaled(N, M, s)
    IN IF nd[1] >= Pow2(MantissaBits) * nd[2] THEN Shift(N, M, s - 1)
       ELSE IF nd[1] < Pow2(MantissaBits - 1) * nd[2] THEN Shift(N, M, s + 1)
       ELSE s

\* num / den rounded to the nearest integer, ties to even
RoundDiv(num, den) ==
    LET q == num \div den
        r == num % den
    IN IF 2 * r > den \/ (2 * r = den /\ q % 2 = 1) THEN q + 1 ELSE q

\* the float nearest to N / M, for N, M > 0
FRound(N, M) ==
    LET s  == Shift(N, M, 0)
        nd == Scaled(N, M, s)
    IN [m |-> RoundDiv(nd[1], nd[2]), e |-> 0 - s]

\* np.sqrt: the float nearest to the square root of the integer n > 0
FSqrt(n) ==
    LET s2 == CHOOSE t \in (0 - MantissaBits)..MantissaBits :
                 LET nd == Scaled(n, 1, 2 * t)
                 IN /\ nd[1] >= Pow2(2 * (MantissaBits - 1)) * nd[2]
                    /\ nd[1] < Pow2(2 * MantissaBits) * nd[2]
        nd == Scaled(n, 1, 2 * s2)
        k  == CHOOSE j \in 0..Pow2(MantissaBits) :
                 j * j * nd[2] <= nd[1] /\ (j + 1) * (j + 1) * nd[2] > nd[1]
    IN [m |-> IF (2 * k + 1) * (2 * k + 1) * nd[2] < 4 * nd[1] THEN k + 1 ELSE k,
        e |-> 0 - s2]

\* x * y, rounded
FMul(x, y) ==
    LET r == FRound(x.m * y.m, 1)
    IN [m |-> r.m, e |-> r.e + x.e + y.e]

\* the integer d / the float y, rounded, for d # 0
FDivInt(d, y) ==
    LET r == FRound(IF d < 0 THEN 0 - d ELSE d, y.m)
    IN [m |-> IF d < 0 THEN 0 - r.m ELSE r.m, e |-> r.e - y.e]

\* x > 1, x < -1 for a float x
FAboveOne(x) == IF x.e >= 0 THEN x.m * Pow2(x.e) > 1 ELSE x.m > Pow2(0 - x.e)

FBelowMinusOne(x) == FAboveOne([m |-> 0 - x.m, e |-> x.e])

Vectors2 == ((0 - MaxComp)..MaxComp) \X ((0 - MaxComp)..MaxComp)

CosFrame == UNCHANGED <<packVars, askVars, indexVars, statsVars, upsertVars, healthVars,
                        queryVars, guessVars, modelVars, segVars, cos_a, cos_b, calls>>

\* np.dot(a, b) / (da * db)
Quotient(a, b) ==
    LET da == FSqrt(Dot(a, a))
        db == FSqrt(Dot(b, b))
        d  == Dot(a, b)
    IN IF d = 0 THEN [m |-> 0, e |-> 0] ELSE FDivInt(d, FMul(da, db))

\* da = norm(a); db = norm(b); if da == 0 or db == 0: return 0.0
CosZero ==
    /\ cospc = "call"
    /\ Dot(cos_a, cos_a) = 0 \/ Dot(cos_b, cos_b) = 0
    /\ cos_out' = [zero |-> TRUE, value |-> [m |-> 0, e |-> 0]]
    /\ cospc' = "done"
    /\ CosFrame

\* return float(np.dot(a, b) / (na * nb))
CosDivide ==
    /\ cospc = "call"
    /\ Dot(cos_a, cos_a) # 0
    /\ Dot(cos_b, cos_b) # 0
    /\ cos_out' = [zero |-> FALSE, value |-> Quotient(cos_a, cos_b)]
    /\ cospc' = "done"
    /\ CosFrame

CosNext ==
    \/ CosZero
    \/ CosDivide

CosInit ==
    /\ PackIdle_Locals
    /\ AskIdle_Locals
    /\ IndexIdle
    /\ StatsIdle
    /\ UpsertIdle
    /\ HealthIdle
    /\ QueryIdle
    /\ GuessIdle
    /\ ModelIdle
    /\ SegIdle
    /\ calls = NoCalls
    /\ cos_a \in Vectors2
    /\ cos_b \in Vectors2
    /\ cos_out = NoSim
    /\ cospc = "call"

SpecCos == CosInit /\ [][CosNext]_vars

\* C27: cos_sim(a, b) = cos_sim(b, a), the value cos_sim returns lies in [-1, 1],
\* and it is exactly 0, by the early return, whenever a vector has norm 0.
C27_CosSimBounded ==
    cospc = "done" =>
        /\ ~cos_out.zero => cos_out.value = Quotient(cos_b, cos_a)
        /\ ~FAboveOne(cos_out.value)
        /\ ~FBelowMinusOne(cos_out.value)
        /\ (Dot(cos_a, cos_a) = 0 \/ Dot(cos_b, cos_b) = 0) =>
              (cos_out.zero /\ cos_out.value.m = 0)


(***************************************************************************)
(* delete_by_source() beside upsert().  Both endpoints are plain functions *)
(* that the server runs on worker threads, and the scroll and the delete   *)
(* are two separate requests to the index, so an upsert of another request *)
(* can be written between them.                                            *)
(***************************************************************************)

\* C28: when at most 1000 records match at the scroll, the deleted_estimate that
\* delete_by_source returns equals the number of records its delete removes, also
\* when an upsert for the same source is written between the scroll and the delete.
C28_EstimateIsRemovedCount ==
    [][(/\ dpc = "delete"
        /\ dpc' = "done"
        /\ dresp'.kind = "ok"
        /\ Cardinality(MatchedAtScroll) <= ScrollLimit)
       => dresp'.deleted_estimate
            = Cardinality(DOMAIN index) - Cardinality(DOMAIN index')]_vars


(***************************************************************************)
(* The windows of chunk_text for max_chars > overlap >= 0.                 *)
(***************************************************************************)

\* the request went through chunk_text and chunk_text has returned
ChunkTextReturned == ~HasTexts(ureq) /\ upc \in {"chunked", "write", "done"}

WindowConfig == ureq.max_chars > ureq.overlap /\ ureq.overlap >= 0

\* the first window followed by every later window without its first k characters
RECURSIVE JoinWindows(_, _, _)
JoinWindows(cs, k, first) ==
    IF cs = <<>> THEN <<>>
    ELSE (IF first THEN cs[1] ELSE SubSeq(cs[1], k + 1, Len(cs[1])))
         \o JoinWindows(Tail(cs), k, FALSE)

\* C29: for max_chars > overlap >= 0 and a trimmed text longer than max_chars the
\* windows of chunk_text start at offsets 0, step, 2*step, ... with
\* step = max_chars - overlap, every window but the last has length max_chars, the
\* last has length <= max_chars and ends at the end of the text, and the first
\* window joined with every later window minus its first overlap characters is the
\* trimmed text; a trimmed text of length <= max_chars gives the single text, or
\* the empty list when it is empty.
C29_ChunkTextWindows ==
    (ChunkTextReturned /\ WindowConfig) =>
        LET text == StripStr(TextOrEmpty(ureq))
            n    == Len(uchunks)
            step == ureq.max_chars - ureq.overlap
        IN IF Len(text) <= ureq.max_chars
           THEN uchunks = (IF text = <<>> THEN <<>> ELSE <<text>>)
           ELSE /\ n >= 2
                /\ \A i \in 1..n :
                      /\ uchunks[i] = SubSeq(text, (i - 1) * step + 1,
                                              (i - 1) * step + Len(uchunks[i]))
                      /\ i < n => Len(uchunks[i]) = ureq.max_chars
                /\ Len(uchunks[n]) <= ureq.max_chars
                /\ (n - 1) * step + Len(uchunks[n]) = Len(text)
                /\ JoinWindows(uchunks, ureq.overlap, TRUE) = text

C29_Witness ==
    /\ ChunkTextReturned
    /\ ureq.max_chars = 2
    /\ ureq.overlap = 1
    /\ Len(StripStr(TextOrEmpty(ureq))) = 4
    /\ Len(uchunks) = 3
    /\ upc = "done"


\* the pre-chunked list contributes no chunk: absent, empty, or only blank strings
TextsGiveNoChunk == ureq.texts = NoneList \/ AllBlank(ureq.texts)

NonBlankText == ureq.text # NoneStr /\ StripStr(ureq.text) # <<>>

\* C30: whenever texts contributes no chunk and text is not blank, a successful
\* upsert has ingested the chunks of text: also for a texts list that is non-empty
\* but holds only blank strings the count is at least 1 and points are written.
C30_BlankTextsFallBackToText ==
    (UpsertOk /\ TextsGiveNoChunk /\ NonBlankText) =>
        /\ uresp.upserted >= 1
        /\ written # <<>>

====
